---- MODULE Spec2Model ----
(***************************************************************************)
(* Anzen peer mesh: the per-room WebRTC mesh manager (useWebRTC.js), the   *)
(* file framing helpers (fileTransfer.js) and the admission control of     *)
(* App.jsx, modelled as state machines.                                    *)
(*                                                                         *)
(* RTCPeerConnection objects live in a heap (pcs); the Maps of the hook    *)
(* hold references (heap indices).  An SDP is represented by the index of  *)
(* the RTCPeerConnection that produced it: a transport comes up only       *)
(* between two objects that hold each other's description.                 *)
(***************************************************************************)
EXTENDS Integers, Sequences, FiniteSets, TLC

\* ---------------------------------------------------------------- bounds
Peers == {"A", "B", "C"}
MeshPeers == {"A", "B"}
MaxPc == 4
MaxPcText == 3
MaxPcTeardown == 5
MaxPcReplace == 6
MaxText == 2
MaxFail == 1
MaxDisconnect == 1
MaxCand == 1
MaxFiles == 2
MaxRaw == 3
MaxJoins == 2
MaxRoster == 2
MaxMount == 2
MaxRejoin == 1
MaxMsgs == 2

VARIABLES
    pcs,              \* heap of RTCPeerConnection objects, in creation order
    peerConnections,  \* side -> Map peerId -> RTCPeerConnection
    dataChannels,     \* side -> Map peerId -> RTCDataChannel
    inboundFiles,     \* side -> Map peerId -> { meta, chunks }
    pendingMessages,  \* side -> Map peerId -> queued items
    tasks,            \* async operations suspended at an await
    net,              \* relay: envelopes in flight, FIFO per (from, to)
    roster,           \* side -> ids of peersByRoom[roomName]
    delivered,        \* side -> messages handed to onMessage
    nText,            \* number of broadcastText calls so far
    nFail,            \* number of transport failures so far
    nDisc,            \* number of disconnectAll calls so far
    nCand,            \* number of ICE candidates gathered so far
    nFiles,           \* number of broadcastFile calls so far
    nRaw,             \* number of frames sent by a peer that does not follow the protocol
    glare,            \* history: two opposite offers were in flight at once
    socks,            \* heap of WebSocket objects, with the closure of their effect run
    wsRef,            \* side -> wsRef.current (0 for null)
    status,           \* side -> statusByRoom[roomName]
    errorText,        \* side -> errorByRoom[roomName]
    members,          \* relay: its connections to the peers of the room, in join order
    raised,           \* history: the operations of the hook whose promise was rejected
    peerMeta,         \* side -> keys of peerMetaRef.current
    nMount,           \* number of runs of the RoomConnection effect so far
    rooms,            \* App: names of the joined rooms
    activeRoom,       \* App: the room shown, or NoRoom
    peersByRoom,      \* App: room -> length of its roster
    limitModal,       \* App: "warning250", "prompt450" or "null"
    pendingJoinRoom,  \* App: the join waiting for a confirmation, or NoPending
    joinTasks,        \* App: performJoinRoom calls suspended at an await
    started,          \* history: the performJoinRoom calls, in order
    messagesByRoom,   \* App: room -> the messages of its in-memory history
    persisted,        \* history: room -> the messages passed to addMessage(room, ...)
    store,            \* messagesStore: room -> the stored list of its messages
    dbTasks,          \* App: calls that read or write messagesStore, suspended at an await
    msgOffset,        \* App: room -> msgOffsetRefs.current[room]
    allLoaded,        \* App: room -> allLoadedByRoom[room]
    lastOp,           \* history: the handler that ran last
    nRoster           \* number of roster events so far

appVars == <<rooms, activeRoom, peersByRoom, limitModal, pendingJoinRoom,
             joinTasks, started, messagesByRoom, persisted, store, dbTasks,
             msgOffset, allLoaded, lastOp, nRoster>>

meshVars == <<pcs, peerConnections, dataChannels, inboundFiles, pendingMessages,
              tasks, net, roster, delivered, nText, nFail, nDisc, nCand, nFiles, nRaw, glare,
              socks, wsRef, status, errorText, members, raised, peerMeta, nMount>>

\* ------------------------------------------------------------ Map helpers
EmptyMap == [k \in {} |-> 0]
Has(m, k) == k \in DOMAIN m
MapSet(m, k, v) == [x \in (DOMAIN m) \cup {k} |-> IF x = k THEN v ELSE m[x]]
MapDelete(m, k) == [x \in (DOMAIN m) \ {k} |-> m[x]]

\* The program state as one record, so that helpers compose sequentially.
World ==
    [pcs |-> pcs, peerConnections |-> peerConnections,
     dataChannels |-> dataChannels, inboundFiles |-> inboundFiles,
     pendingMessages |-> pendingMessages, tasks |-> tasks, net |-> net,
     roster |-> roster, delivered |-> delivered,
     socks |-> socks, wsRef |-> wsRef, status |-> status, errorText |-> errorText,
     members |-> members, raised |-> raised, peerMeta |-> peerMeta]

Commit(w) ==
    /\ pcs' = w.pcs
    /\ peerConnections' = w.peerConnections
    /\ dataChannels' = w.dataChannels
    /\ inboundFiles' = w.inboundFiles
    /\ pendingMessages' = w.pendingMessages
    /\ tasks' = w.tasks
    /\ net' = w.net
    /\ roster' = w.roster
    /\ delivered' = w.delivered
    /\ socks' = w.socks
    /\ wsRef' = w.wsRef
    /\ status' = w.status
    /\ errorText' = w.errorText
    /\ members' = w.members
    /\ raised' = w.raised
    /\ peerMeta' = w.peerMeta

\* A MIME type "major/minor"; the empty string is EmptyMime.
Mime(major, minor) == [major |-> major, minor |-> minor]
EmptyMime == Mime("", "")
NoFile == [id |-> 0, name |-> "", type |-> EmptyMime, size |-> 0]

\* An async function suspended at an await, with the values its closure holds.
Task(op, pc, sdp, file) == [op |-> op, pc |-> pc, sdp |-> sdp, file |-> file]

\* ------------------------------------------------------- RTCPeerConnection
NewPc(s, p) ==
    [owner |-> s, peer |-> p, role |-> "none", closed |-> FALSE,
     signalingState |-> "stable", localSet |-> FALSE, remote |-> 0,
     connectionState |-> "new", dc |-> "none", cands |-> {},
     out |-> <<>>, rcvd |-> 0, issued |-> <<>>, files |-> <<>>]

\* RTCPeerConnection.close(): the object and its channel are dead; no event fires.
ClosePc(h, id) ==
    [h EXCEPT ![id].closed = TRUE,
              ![id].signalingState = "closed",
              ![id].connectionState = "closed",
              ![id].dc = IF @ = "none" THEN "none" ELSE "closed"]

\* Two objects hold each other's description.
Paired(h, x) ==
    /\ h[x].remote # 0
    /\ h[h[x].remote].remote = x

Transportable(h, x) ==
    /\ ~h[x].closed
    /\ Paired(h, x)
    /\ ~h[h[x].remote].closed
    /\ h[x].signalingState = "stable"
    /\ h[h[x].remote].signalingState = "stable"

\* ----------------------------------------------------------- useWebRTC.js
sendSignal(w, s, msg) ==
    IF w.wsRef[s] # 0 /\ w.socks[w.wsRef[s]].readyState = "open"
    THEN [w EXCEPT !.net[s][msg.to] = Append(@, msg)]
    ELSE w

cleanupPeerMutNoClose(w, s, p) ==
    [w EXCEPT !.peerConnections[s] = MapDelete(@, p),
              !.dataChannels[s] = MapDelete(@, p),
              !.inboundFiles[s] = MapDelete(@, p),
              !.pendingMessages[s] = MapDelete(@, p)]

cleanupPeerMutKeepSlot(w, s, p) ==
    [w EXCEPT !.pcs = IF Has(w.peerConnections[s], p)
                        THEN ClosePc(@, w.peerConnections[s][p]) ELSE @,
              !.peerConnections[s] = MapDelete(@, p),
              !.dataChannels[s] = MapDelete(@, p),
              !.pendingMessages[s] = MapDelete(@, p)]

cleanupPeer(w, s, p) ==
    [w EXCEPT !.pcs = IF Has(w.peerConnections[s], p)
                        THEN ClosePc(@, w.peerConnections[s][p]) ELSE @,
              !.peerConnections[s] = MapDelete(@, p),
              !.dataChannels[s] = MapDelete(@, p),
              !.inboundFiles[s] = MapDelete(@, p),
              !.pendingMessages[s] = MapDelete(@, p)]

setupDataChannel(w, s, p, ch) ==
    [w EXCEPT !.dataChannels[s] = MapSet(@, p, ch)]

createPeerConnectionMutNoCleanup(w, s, p) ==
    [w EXCEPT !.pcs = Append(@, NewPc(s, p)),
              !.peerConnections[s] = MapSet(@, p, Len(w.pcs) + 1)]

createPeerConnectionMutKeepTransfer(w, s, p) ==
    LET w1 == IF Has(w.peerConnections[s], p)
              THEN [cleanupPeer(w, s, p) EXCEPT !.inboundFiles = w.inboundFiles]
              ELSE w
    IN [w1 EXCEPT !.pcs = Append(@, NewPc(s, p)),
                  !.peerConnections[s] = MapSet(@, p, Len(w.pcs) + 1)]

createPeerConnectionMutReuse(w, s, p) ==
    IF Has(w.peerConnections[s], p)
    THEN [w EXCEPT !.pcs[w.peerConnections[s][p]] = NewPc(s, p),
                   !.dataChannels[s] = MapDelete(@, p)]
    ELSE [w EXCEPT !.pcs = Append(@, NewPc(s, p)),
                   !.peerConnections[s] = MapSet(@, p, Len(w.pcs) + 1)]

createPeerConnection(w, s, p) ==
    LET w1 == IF Has(w.peerConnections[s], p) THEN cleanupPeer(w, s, p) ELSE w
    IN [w1 EXCEPT !.pcs = Append(@, NewPc(s, p)),
                  !.peerConnections[s] = MapSet(@, p, Len(w1.pcs) + 1)]

handlePeerJoinedMutNoop(w, s, p) == w

handlePeerJoinedMutAlwaysAppend(w, s, p) ==
    [w EXCEPT !.roster[s] = Append(@, p)]

\* RoomConnection.jsx callbacks handed to the hook
handlePeerJoined(w, s, p) ==
    IF \E i \in 1..Len(w.roster[s]) : w.roster[s][i] = p
    THEN w
    ELSE [w EXCEPT !.roster[s] = Append(@, p)]

handlePeerLeft(w, s, p) ==
    [w EXCEPT !.roster[s] = SelectSeq(@, LAMBDA q : q # p)]

BothOffersInFlight(n) ==
    \E a \in Peers, b \in Peers :
        /\ a # b
        /\ \E i \in 1..Len(n[a][b]) : n[a][b][i].type = "offer"
        /\ \E j \in 1..Len(n[b][a]) : n[b][a][j].type = "offer"

\* The mesh handlers record glare and do not touch the state of App
History ==
    /\ glare' = (glare \/ BothOffersInFlight(net'))
    /\ UNCHANGED <<appVars, nMount>>

\* initiateCall up to its first await
initiateCall(w, s, p) ==
    LET w1 == createPeerConnection(w, s, p)
        id == w1.peerConnections[s][p]
        w2 == [w1 EXCEPT !.pcs[id].dc = "connecting",
                         !.pcs[id].role = "initiator"]
        w3 == setupDataChannel(w2, s, p, id)
    IN [w3 EXCEPT !.tasks = @ \cup {Task("initiateCall", id, 0, NoFile)}]

\* initiateCall after createOffer / setLocalDescription: both fail on a closed object
initiateCallResumeMutIgnoreClosed(w, t) ==
    LET s == w.pcs[t.pc].owner
        p == w.pcs[t.pc].peer
        w0 == [w EXCEPT !.tasks = @ \ {t}]
        w1 == [w0 EXCEPT !.pcs[t.pc].signalingState = "have-local-offer",
                         !.pcs[t.pc].localSet = TRUE]
        w2 == sendSignal(w1, s, [type |-> "offer", to |-> p, sdp |-> t.pc])
    IN handlePeerJoined(w2, s, p)

initiateCallResume(w, t) ==
    LET s == w.pcs[t.pc].owner
        p == w.pcs[t.pc].peer
        w0 == [w EXCEPT !.tasks = @ \ {t}]
    IN IF w.pcs[t.pc].closed
       THEN [w0 EXCEPT !.raised = @ \cup {"initiateCall"}]
       ELSE LET w1 == [w0 EXCEPT !.pcs[t.pc].signalingState = "have-local-offer",
                                 !.pcs[t.pc].localSet = TRUE]
                w2 == sendSignal(w1, s, [type |-> "offer", to |-> p, sdp |-> t.pc])
            IN handlePeerJoined(w2, s, p)

\* The for loop of the 'joined' case, at the head of an iteration
joinedLoop(w, k) ==
    LET s == w.socks[k].owner IN
    IF w.socks[k].loop = <<>>
    THEN [w EXCEPT !.socks[k].loopPc = 0]
    ELSE LET p == Head(w.socks[k].loop)
             w1 == initiateCall([w EXCEPT !.socks[k].loop = Tail(@),
                                          !.peerMeta[s] = @ \cup {p}], s, p)
         IN [w1 EXCEPT !.socks[k].loopPc = w1.peerConnections[s][p]]

\* await initiateCall(...) of the 'joined' case returns or throws
joinedResume(w, t, threw) ==
    IF \E k \in 1..Len(w.socks) : w.socks[k].loopPc = t.pc
    THEN LET k == CHOOSE x \in 1..Len(w.socks) : w.socks[x].loopPc = t.pc
         IN IF threw
            THEN [w EXCEPT !.socks[k].loop = <<>>, !.socks[k].loopPc = 0]
            ELSE joinedLoop(w, k)
    ELSE w

\* handleOffer up to its first await
handleOffer(w, s, from, sdp) ==
    LET w1 == createPeerConnection(w, s, from)
        id == w1.peerConnections[s][from]
        w2 == [w1 EXCEPT !.pcs[id].role = "responder"]
    IN [w2 EXCEPT !.tasks = @ \cup {Task("handleOffer", id, sdp, NoFile)}]

handleOfferResumeMutNoAnswer(w, t) ==
    LET s == w.pcs[t.pc].owner
        p == w.pcs[t.pc].peer
        w0 == [w EXCEPT !.tasks = @ \ {t}]
    IN IF w.pcs[t.pc].closed
       THEN [w0 EXCEPT !.raised = @ \cup {"handleOffer"}]
       ELSE handlePeerJoined([w0 EXCEPT !.pcs[t.pc].remote = t.sdp,
                                        !.pcs[t.pc].signalingState = "stable",
                                        !.pcs[t.pc].localSet = TRUE], s, p)

\* handleOffer after setRemoteDescription / createAnswer / setLocalDescription
handleOfferResume(w, t) ==
    LET s == w.pcs[t.pc].owner
        p == w.pcs[t.pc].peer
        w0 == [w EXCEPT !.tasks = @ \ {t}]
    IN IF w.pcs[t.pc].closed
       THEN [w0 EXCEPT !.raised = @ \cup {"handleOffer"}]
       ELSE LET w1 == [w0 EXCEPT !.pcs[t.pc].remote = t.sdp,
                                 !.pcs[t.pc].signalingState = "stable",
                                 !.pcs[t.pc].localSet = TRUE]
                w2 == sendSignal(w1, s, [type |-> "answer", to |-> p, sdp |-> t.pc])
            IN handlePeerJoined(w2, s, p)

\* setRemoteDescription(answer) is rejected unless an own offer is outstanding,
\* and handleAnswer does not catch the rejection
handleAnswer(w, s, p, sdp) ==
    IF ~Has(w.peerConnections[s], p)
    THEN w
    ELSE LET id == w.peerConnections[s][p]
         IN IF w.pcs[id].signalingState = "have-local-offer"
            THEN [w EXCEPT !.pcs[id].remote = sdp,
                           !.pcs[id].signalingState = "stable"]
            ELSE [w EXCEPT !.raised = @ \cup {"handleAnswer"}]

\* addIceCandidate fails (and the error is caught) without a remote description
handleIceCandidate(w, s, p, cand) ==
    IF ~Has(w.peerConnections[s], p)
    THEN w
    ELSE LET id == w.peerConnections[s][p]
         IN IF w.pcs[id].remote # 0
            THEN [w EXCEPT !.pcs[id].cands = @ \cup {cand}]
            ELSE w

\* ws.onmessage in RoomConnection.jsx: the envelope at the head of the relay queue
Dequeue(w, s, from) == [w EXCEPT !.net[from][s] = Tail(@)]

InitiateCall(limit, s, p) ==
    /\ s # p
    /\ Len(pcs) < limit
    /\ Commit(initiateCall(World, s, p))
    /\ History
    /\ UNCHANGED <<nText, nFail, nDisc, nCand, nFiles, nRaw>>

ResumeInitiateCall(t) ==
    /\ t \in tasks
    /\ t.op = "initiateCall"
    /\ Commit(joinedResume(initiateCallResume(World, t), t, pcs[t.pc].closed))
    /\ History
    /\ UNCHANGED <<nText, nFail, nDisc, nCand, nFiles, nRaw>>

HandleOffer(limit, s, from) ==
    /\ Len(net[from][s]) > 0
    /\ Head(net[from][s]).type = "offer"
    /\ Len(pcs) < limit
    /\ Commit(handleOffer([Dequeue(World, s, from) EXCEPT !.peerMeta[s] = @ \cup {from}],
                           s, from, Head(net[from][s]).sdp))
    /\ History
    /\ UNCHANGED <<nText, nFail, nDisc, nCand, nFiles, nRaw>>

ResumeHandleOffer(t) ==
    /\ t \in tasks
    /\ t.op = "handleOffer"
    /\ Commit(handleOfferResume(World, t))
    /\ History
    /\ UNCHANGED <<nText, nFail, nDisc, nCand, nFiles, nRaw>>

HandleAnswer(s, from) ==
    /\ Len(net[from][s]) > 0
    /\ Head(net[from][s]).type = "answer"
    /\ Commit(handleAnswer(Dequeue(World, s, from), s, from, Head(net[from][s]).sdp))
    /\ History
    /\ UNCHANGED <<nText, nFail, nDisc, nCand, nFiles, nRaw>>

HandleIceCandidate(s, from) ==
    /\ Len(net[from][s]) > 0
    /\ Head(net[from][s]).type = "ice-candidate"
    /\ Commit(handleIceCandidate(Dequeue(World, s, from), s, from, Head(net[from][s]).sdp))
    /\ History
    /\ UNCHANGED <<nText, nFail, nDisc, nCand, nFiles, nRaw>>

\* pc.onicecandidate
OnIceCandidate(id) ==
    /\ id \in 1..Len(pcs)
    /\ ~pcs[id].closed
    /\ pcs[id].localSet
    /\ nCand < MaxCand
    /\ nCand' = nCand + 1
    /\ Commit(sendSignal(World, pcs[id].owner,
                         [type |-> "ice-candidate", to |-> pcs[id].peer, sdp |-> id]))
    /\ History
    /\ UNCHANGED <<nText, nFail, nDisc, nFiles, nRaw>>

\* ------------------------------------------------------ transport events
\* pc.onconnectionstatechange with 'connected': the handler only logs
onConnected(w, id) == [w EXCEPT !.pcs[id].connectionState = "connected"]

OnConnected(id) ==
    /\ id \in 1..Len(pcs)
    /\ Transportable(pcs, id)
    /\ pcs[id].connectionState = "new"
    /\ Commit(onConnected(World, id))
    /\ History
    /\ UNCHANGED <<nText, nFail, nDisc, nCand, nFiles, nRaw>>

\* pc.ondatachannel on the answering side
ondatachannel(w, id) ==
    setupDataChannel([w EXCEPT !.pcs[id].dc = "connecting"],
                     w.pcs[id].owner, w.pcs[id].peer, id)

OnDataChannel(id) ==
    /\ id \in 1..Len(pcs)
    /\ Transportable(pcs, id)
    /\ pcs[id].connectionState = "connected"
    /\ pcs[id].role = "responder"
    /\ pcs[id].dc = "none"
    /\ Commit(ondatachannel(World, id))
    /\ History
    /\ UNCHANGED <<nText, nFail, nDisc, nCand, nFiles, nRaw>>

\* The frames channel.onopen sends for a drained queue
RECURSIVE flush(_)
flush(queue) ==
    IF queue = <<>> THEN <<>>
    ELSE (IF Head(queue).type = "text" THEN <<Head(queue).payload>> ELSE <<>>)
         \o flush(Tail(queue))

onopenMutKeepQueue(w, s, p, ch) ==
    LET queue == IF Has(w.pendingMessages[s], p) THEN w.pendingMessages[s][p] ELSE <<>>
    IN [w EXCEPT !.pcs[ch].dc = "open",
                 !.pcs[ch].out = @ \o flush(queue)]

\* the channel becomes open and channel.onopen runs
onopen(w, s, p, ch) ==
    LET queue == IF Has(w.pendingMessages[s], p) THEN w.pendingMessages[s][p] ELSE <<>>
    IN [w EXCEPT !.pcs[ch].dc = "open",
                 !.pendingMessages[s] = MapDelete(@, p),
                 !.pcs[ch].out = @ \o flush(queue)]

\* channel.onopen
ChannelOpen(id) ==
    /\ id \in 1..Len(pcs)
    /\ Transportable(pcs, id)
    /\ pcs[id].connectionState = "connected"
    /\ pcs[id].dc = "connecting"
    /\ Commit(onopen(World, pcs[id].owner, pcs[id].peer, id))
    /\ History
    /\ UNCHANGED <<nText, nFail, nDisc, nCand, nFiles, nRaw>>

\* pc.onconnectionstatechange with 'disconnected' or 'failed'
onConnectionLost(w, id, st) ==
    LET w1 == [w EXCEPT !.pcs[id].connectionState = st]
        w2 == cleanupPeer(w1, w.pcs[id].owner, w.pcs[id].peer)
    IN handlePeerLeft(w2, w.pcs[id].owner, w.pcs[id].peer)

OnConnectionLost(id, st) ==
    /\ id \in 1..Len(pcs)
    /\ ~pcs[id].closed
    /\ pcs[id].connectionState \in {"new", "connected"}
    /\ nFail < MaxFail
    /\ nFail' = nFail + 1
    /\ Commit(onConnectionLost(World, id, st))
    /\ History
    /\ UNCHANGED <<nText, nDisc, nCand, nFiles, nRaw>>

\* An open channel closes; setupDataChannel installs no onclose handler
ChannelClose(id) ==
    /\ id \in 1..Len(pcs)
    /\ ~pcs[id].closed
    /\ pcs[id].dc = "open"
    /\ nFail < MaxFail
    /\ nFail' = nFail + 1
    /\ Commit([World EXCEPT !.pcs[id].dc = "closed"])
    /\ History
    /\ UNCHANGED <<nText, nDisc, nCand, nFiles, nRaw>>

RECURSIVE cleanupEach(_, _, _)
cleanupEach(w, s, ids) ==
    IF ids = {} THEN w
    ELSE LET p == CHOOSE x \in ids : TRUE
         IN cleanupEach(cleanupPeer(w, s, p), s, ids \ {p})

disconnectAllMutRecordsOnly(w, s) ==
    [w EXCEPT !.pcs = [x \in DOMAIN @ |->
                          IF \E p \in DOMAIN w.peerConnections[s] :
                                 w.peerConnections[s][p] = x
                          THEN ClosePc(@, x)[x] ELSE @[x]],
              !.peerConnections[s] = EmptyMap]

disconnectAll(w, s) == cleanupEach(w, s, DOMAIN w.peerConnections[s])

DisconnectAll(s) ==
    /\ nDisc < MaxDisconnect
    /\ nDisc' = nDisc + 1
    /\ Commit(disconnectAll(World, s))
    /\ History
    /\ UNCHANGED <<nText, nFail, nCand, nFiles, nRaw>>

\* ------------------------------------------------------------- text frames
StringData(obj) == [kind |-> "string", valid |-> TRUE, json |-> obj]

TextObj(s, n) ==
    [type |-> "text", senderId |-> s, text |-> n]

enqueueMutPrepend(queue, item) == <<item>> \o queue

\* pendingMessages.get(peerId).push(item)
enqueue(queue, item) == Append(queue, item)

RECURSIVE broadcastEach(_, _, _, _)
broadcastEach(w, s, ids, msg) ==
    IF ids = {} THEN w
    ELSE LET p == CHOOSE x \in ids : TRUE
             ch == w.dataChannels[s][p]
             w1 == IF w.pcs[ch].dc = "open"
                   THEN [w EXCEPT !.pcs[ch].out = Append(@, msg),
                                  !.pcs[ch].issued =
                                      Append(@, [text |-> msg.json.text, queued |-> FALSE])]
                   ELSE IF w.pcs[ch].dc = "connecting"
                   THEN [w EXCEPT !.pendingMessages[s] =
                                      MapSet(@, p, enqueue(IF Has(@, p) THEN @[p] ELSE <<>>,
                                                           [type |-> "text", payload |-> msg])),
                                  !.pcs[ch].issued =
                                      Append(@, [text |-> msg.json.text, queued |-> TRUE])]
                   ELSE w
         IN broadcastEach(w1, s, ids \ {p}, msg)

broadcastTextMutQueueAlways(w, s, text) ==
    LET msg == StringData(TextObj(s, text))
        w1 == broadcastEach(w, s, DOMAIN w.dataChannels[s], msg)
    IN [w1 EXCEPT !.pendingMessages[s] =
            [p \in DOMAIN w.dataChannels[s] \cup DOMAIN w.pendingMessages[s] |->
                IF p \in DOMAIN w.dataChannels[s]
                   /\ w.pcs[w.dataChannels[s][p]].dc # "connecting"
                THEN enqueue(IF Has(w.pendingMessages[s], p)
                             THEN w.pendingMessages[s][p] ELSE <<>>,
                             [type |-> "text", payload |-> msg])
                ELSE w1.pendingMessages[s][p]]]

broadcastText(w, s, text) ==
    broadcastEach(w, s, DOMAIN w.dataChannels[s], StringData(TextObj(s, text)))

BroadcastText(s) ==
    /\ nText < MaxText
    /\ nText' = nText + 1
    /\ Commit(broadcastText(World, s, nText + 1))
    /\ History
    /\ UNCHANGED <<nFail, nDisc, nCand, nFiles, nRaw>>

\* --------------------------------------------------------- fileTransfer.js
CHUNK_SIZE == 16384

Min(a, b) == IF a < b THEN a ELSE b

totalChunksMutFloor(byteLength) == byteLength \div CHUNK_SIZE

\* Math.ceil(byteLength / CHUNK_SIZE)
totalChunks(byteLength) == (byteLength + CHUNK_SIZE - 1) \div CHUNK_SIZE

\* buffer.slice(start, end): the bytes [start, end) of the file's buffer
Slice(file, start, end) ==
    [kind |-> "binary", file |-> file.id, start |-> start, end |-> end]

RECURSIVE chunkLoop(_, _, _)
chunkLoop(file, i, total) ==
    IF i < total
    THEN <<Slice(file, i * CHUNK_SIZE, Min(i * CHUNK_SIZE + CHUNK_SIZE, file.size))>>
         \o chunkLoop(file, i + 1, total)
    ELSE <<>>

\* x || fallback on strings
OrElse(x, fallback) == IF x = "" THEN fallback ELSE x

FileMeta(file, senderMeta) ==
    [type |-> "file-meta", name |-> file.name, mimeType |-> file.type,
     size |-> file.size, totalChunks |-> totalChunks(file.size),
     senderId |-> OrElse(senderMeta.senderId, ""),
     senderName |-> OrElse(senderMeta.senderName, "Peer"),
     avatarSeed |-> OrElse(senderMeta.avatarSeed, "")]

FileEnd == [type |-> "file-end"]

\* The frames sendFile passes to channel.send, in order
sendFile(file, senderMeta) ==
    <<StringData(FileMeta(file, senderMeta))>>
    \o chunkLoop(file, 0, totalChunks(file.size))
    \o <<StringData(FileEnd)>>

Reverse(seq) == [i \in 1..Len(seq) |-> seq[Len(seq) + 1 - i]]

reassembleFileMutReversed(chunks, meta) ==
    [parts |-> Reverse(chunks),
     type |-> IF meta.mimeType = EmptyMime
              THEN Mime("application", "octet-stream") ELSE meta.mimeType]

\* new Blob(chunks, { type }): the parts in order and the type
reassembleFile(chunks, meta) ==
    [parts |-> chunks,
     type |-> IF meta.mimeType = EmptyMime
              THEN Mime("application", "octet-stream") ELSE meta.mimeType]

isMedia(mimeType) == mimeType.major \in {"image", "video"}

\* The bytes of a Blob: its non-empty parts, adjacent slices of one buffer merged
RECURSIVE Bytes(_)
Bytes(parts) ==
    IF parts = <<>> THEN <<>>
    ELSE LET h == Head(parts)
             r == Bytes(Tail(parts))
         IN IF h.start >= h.end THEN r
            ELSE IF r # <<>> /\ r[1].file = h.file /\ r[1].start = h.end
                 THEN <<[file |-> h.file, start |-> h.start, end |-> r[1].end]>> \o Tail(r)
                 ELSE <<[file |-> h.file, start |-> h.start, end |-> h.end]>> \o r

\* The bytes of a whole file
FileBytes(file) ==
    IF file.size = 0 THEN <<>>
    ELSE <<[file |-> file.id, start |-> 0, end |-> file.size]>>

\* ------------------------------------------------ handleDataChannelMessage
Artifact(entry, peerId) ==
    [type |-> IF isMedia(entry.meta.mimeType) THEN "media" ELSE "file",
     senderId |-> OrElse(entry.meta.senderId, peerId),
     senderName |-> OrElse(entry.meta.senderName, "Peer"),
     avatarSeed |-> OrElse(entry.meta.avatarSeed, peerId),
     fileName |-> entry.meta.name,
     mimeType |-> entry.meta.mimeType,
     blob |-> reassembleFile(entry.chunks, entry.meta)]

\* onMessageRef.current(msg); the entry also records the peer of the channel
onMessage(w, s, peerId, msg) ==
    [w EXCEPT !.delivered[s] = Append(@, [from |-> peerId, msg |-> msg])]

onBinaryMutOpenSlot(w, s, peerId, data) ==
    IF Has(w.inboundFiles[s], peerId)
    THEN [w EXCEPT !.inboundFiles[s][peerId].chunks = Append(@, data)]
    ELSE [w EXCEPT !.inboundFiles[s] =
             MapSet(@, peerId, [meta |-> FileMeta(NoFile, [senderId |-> "", senderName |-> "",
                                                          avatarSeed |-> ""]),
                                chunks |-> <<data>>])]

onBinary(w, s, peerId, data) ==
    IF Has(w.inboundFiles[s], peerId)
    THEN [w EXCEPT !.inboundFiles[s][peerId].chunks = Append(@, data)]
    ELSE w

onFileEndMutKeepSlot(w, s, peerId) ==
    IF Has(w.inboundFiles[s], peerId)
    THEN onMessage(w, s, peerId, Artifact(w.inboundFiles[s][peerId], peerId))
    ELSE w

onFileEnd(w, s, peerId) ==
    IF Has(w.inboundFiles[s], peerId)
    THEN LET entry == w.inboundFiles[s][peerId]
             w1 == [w EXCEPT !.inboundFiles[s] = MapDelete(@, peerId)]
         IN onMessage(w1, s, peerId, Artifact(entry, peerId))
    ELSE w

handleDataChannelMessageMutKeepChunks(w, s, peerId, data) ==
    IF data.kind = "string"
    THEN IF ~data.valid THEN w
         ELSE IF data.json.type = "file-meta"
              THEN [w EXCEPT !.inboundFiles[s] =
                       MapSet(@, peerId,
                              [meta |-> data.json,
                               chunks |-> IF Has(w.inboundFiles[s], peerId)
                                          THEN w.inboundFiles[s][peerId].chunks
                                          ELSE <<>>])]
         ELSE IF data.json.type = "file-end"
              THEN onFileEnd(w, s, peerId)
         ELSE IF data.json.type = "text"
              THEN onMessage(w, s, peerId, data.json)
         ELSE w
    ELSE IF data.kind = "binary"
    THEN onBinary(w, s, peerId, data)
    ELSE w

handleDataChannelMessageMutUnknownResets(w, s, peerId, data) ==
    IF data.kind = "string"
    THEN IF ~data.valid THEN [w EXCEPT !.inboundFiles[s] = MapDelete(@, peerId)]
         ELSE IF data.json.type = "file-meta"
              THEN [w EXCEPT !.inboundFiles[s] =
                       MapSet(@, peerId, [meta |-> data.json, chunks |-> <<>>])]
         ELSE IF data.json.type = "file-end"
              THEN onFileEnd(w, s, peerId)
         ELSE IF data.json.type = "text"
              THEN onMessage(w, s, peerId, data.json)
         ELSE [w EXCEPT !.inboundFiles[s] = MapDelete(@, peerId)]
    ELSE IF data.kind = "binary"
    THEN onBinary(w, s, peerId, data)
    ELSE [w EXCEPT !.inboundFiles[s] = MapDelete(@, peerId)]

handleDataChannelMessage(w, s, peerId, data) ==
    IF data.kind = "string"
    THEN IF ~data.valid THEN w
         ELSE IF data.json.type = "file-meta"
              THEN [w EXCEPT !.inboundFiles[s] =
                       MapSet(@, peerId, [meta |-> data.json, chunks |-> <<>>])]
         ELSE IF data.json.type = "file-end"
              THEN onFileEnd(w, s, peerId)
         ELSE IF data.json.type = "text"
              THEN onMessage(w, s, peerId, data.json)
         ELSE w
    ELSE IF data.kind = "binary"
    THEN onBinary(w, s, peerId, data)
    ELSE w

\* The next frame the remote end has sent and this end has not yet received
Incoming(h, id) ==
    /\ id \in 1..Len(h)
    /\ ~h[id].closed
    /\ h[id].dc = "open"
    /\ Paired(h, id)
    /\ h[id].rcvd < Len(h[h[id].remote].out)

NextFrame(h, id) == h[h[id].remote].out[h[id].rcvd + 1]

\* channel.onmessage
onmessage(w, id) ==
    handleDataChannelMessage([w EXCEPT !.pcs[id].rcvd = @ + 1],
                             w.pcs[id].owner, w.pcs[id].peer, NextFrame(w.pcs, id))

HandleDataChannelMessage(id) ==
    /\ Incoming(pcs, id)
    /\ Commit(onmessage(World, id))
    /\ History
    /\ UNCHANGED <<nText, nFail, nDisc, nCand, nFiles, nRaw>>

\* -------------------------------------------------------- App: admission
RoomNames == {"lobby", "dev", "ops"}
NoRoom == "null"
NoPending == [roomName |-> NoRoom, isCreating |-> FALSE]
WARN_LIMIT == 250
HARD_LIMIT == 450
StartTotals == {0, 249, 449}

RECURSIVE SumOver(_, _)
SumOver(f, S) ==
    IF S = {} THEN 0
    ELSE LET k == CHOOSE x \in S : TRUE IN f[k] + SumOver(f, S \ {k})

\* const totalPeers = Object.values(peersByRoom).reduce(...)
totalPeers(pbr) == SumOver(pbr, DOMAIN pbr)

\* The state of App as one record, so that handlers compose sequentially
App ==
    [rooms |-> rooms, activeRoom |-> activeRoom, peersByRoom |-> peersByRoom,
     limitModal |-> limitModal, pendingJoinRoom |-> pendingJoinRoom,
     joinTasks |-> joinTasks, started |-> started,
     messagesByRoom |-> messagesByRoom, persisted |-> persisted,
     store |-> store, dbTasks |-> dbTasks, msgOffset |-> msgOffset,
     allLoaded |-> allLoaded]

CommitApp(a) ==
    /\ rooms' = a.rooms
    /\ activeRoom' = a.activeRoom
    /\ peersByRoom' = a.peersByRoom
    /\ limitModal' = a.limitModal
    /\ pendingJoinRoom' = a.pendingJoinRoom
    /\ joinTasks' = a.joinTasks
    /\ started' = a.started
    /\ messagesByRoom' = a.messagesByRoom
    /\ persisted' = a.persisted
    /\ store' = a.store
    /\ dbTasks' = a.dbTasks
    /\ msgOffset' = a.msgOffset
    /\ allLoaded' = a.allLoaded

\* performJoinRoom up to its first await
performJoinRoom(a, roomName, isCreating) ==
    [a EXCEPT
        !.joinTasks = @ \cup {[roomName |-> roomName, isCreating |-> isCreating]},
        !.started = Append(@, [roomName |-> roomName,
                               isNew |-> roomName \notin a.rooms,
                               total |-> totalPeers(a.peersByRoom)])]

\* performJoinRoom after the awaits: the room is saved and shown, and the
\* RoomConnection that mounts for a room not yet listed clears its roster
performJoinRoomResume(a, t) ==
    [a EXCEPT
        !.joinTasks = @ \ {t},
        !.rooms = @ \cup {t.roomName},
        !.activeRoom = t.roomName,
        !.peersByRoom[t.roomName] = IF t.roomName \in a.rooms THEN @ ELSE 0]

\* performJoinRoom when the creation request fails
performJoinRoomFailed(a, t) ==
    [a EXCEPT !.joinTasks = @ \ {t}, !.activeRoom = t.roomName]

handleJoinRoomMutOffByOne(a, roomName, isCreating) ==
    LET isNewRoom == roomName \notin a.rooms
        total == totalPeers(a.peersByRoom) IN
    IF isNewRoom /\ total >= HARD_LIMIT
    THEN [a EXCEPT !.limitModal = "prompt450"]
    ELSE IF isNewRoom /\ total > WARN_LIMIT
    THEN [a EXCEPT
            !.pendingJoinRoom = [roomName |-> roomName, isCreating |-> isCreating],
            !.limitModal = "warning250"]
    ELSE performJoinRoom(a, roomName, isCreating)

handleJoinRoomMutGateAll(a, roomName, isCreating) ==
    LET total == totalPeers(a.peersByRoom) IN
    IF total >= HARD_LIMIT
    THEN [a EXCEPT !.limitModal = "prompt450"]
    ELSE IF total >= WARN_LIMIT
    THEN [a EXCEPT
            !.pendingJoinRoom = [roomName |-> roomName, isCreating |-> isCreating],
            !.limitModal = "warning250"]
    ELSE performJoinRoom(a, roomName, isCreating)

handleJoinRoom(a, roomName, isCreating) ==
    LET isNewRoom == roomName \notin a.rooms
        total == totalPeers(a.peersByRoom) IN
    IF isNewRoom /\ total >= HARD_LIMIT
    THEN [a EXCEPT !.limitModal = "prompt450"]
    ELSE IF isNewRoom /\ total >= WARN_LIMIT
    THEN [a EXCEPT
            !.pendingJoinRoom = [roomName |-> roomName, isCreating |-> isCreating],
            !.limitModal = "warning250"]
    ELSE performJoinRoom(a, roomName, isCreating)

confirmPendingJoin(a) ==
    LET b == IF a.pendingJoinRoom # NoPending
             THEN [performJoinRoom(a, a.pendingJoinRoom.roomName,
                                   a.pendingJoinRoom.isCreating)
                      EXCEPT !.pendingJoinRoom = NoPending]
             ELSE a IN
    [b EXCEPT !.limitModal = "null"]

\* onCancel of the warning250 modal
cancelWarning(a) ==
    [a EXCEPT !.limitModal = "null", !.pendingJoinRoom = NoPending]

openNewTabAndCancel(a) == [a EXCEPT !.limitModal = "null"]

\* onCancel of the prompt450 modal
cancelPrompt(a) == [a EXCEPT !.limitModal = "null"]

handleSelectRoom(a, roomName) ==
    IF roomName \notin a.rooms THEN a
    ELSE [a EXCEPT !.activeRoom = roomName]

\* handlePeersUpdate with the updater of handlePeerJoined, for a peer not listed
peerJoined(a, roomName) == [a EXCEPT !.peersByRoom[roomName] = @ + 1]

\* handlePeersUpdate with the updater of handlePeerLeft, for a listed peer
peerLeft(a, roomName) == [a EXCEPT !.peersByRoom[roomName] = @ - 1]

Op(op, roomName) == [op |-> op, roomName |-> roomName]

HandleJoinRoom(roomName, isCreating) ==
    /\ Len(started) < MaxJoins
    /\ CommitApp(handleJoinRoom(App, roomName, isCreating))
    /\ lastOp' = Op("handleJoinRoom", roomName)
    /\ UNCHANGED <<nRoster, meshVars>>

ConfirmPendingJoin ==
    /\ limitModal = "warning250"
    /\ Len(started) < MaxJoins
    /\ CommitApp(confirmPendingJoin(App))
    /\ lastOp' = Op("confirmPendingJoin", pendingJoinRoom.roomName)
    /\ UNCHANGED <<nRoster, meshVars>>

CancelWarning ==
    /\ limitModal = "warning250"
    /\ CommitApp(cancelWarning(App))
    /\ lastOp' = Op("cancelWarning", pendingJoinRoom.roomName)
    /\ UNCHANGED <<nRoster, meshVars>>

OpenNewTabAndCancel ==
    /\ limitModal = "prompt450"
    /\ CommitApp(openNewTabAndCancel(App))
    /\ lastOp' = Op("openNewTabAndCancel", NoRoom)
    /\ UNCHANGED <<nRoster, meshVars>>

CancelPrompt ==
    /\ limitModal = "prompt450"
    /\ CommitApp(cancelPrompt(App))
    /\ lastOp' = Op("cancelPrompt", NoRoom)
    /\ UNCHANGED <<nRoster, meshVars>>

HandleSelectRoom(roomName) ==
    /\ CommitApp(handleSelectRoom(App, roomName))
    /\ lastOp' = Op("handleSelectRoom", roomName)
    /\ UNCHANGED <<nRoster, meshVars>>

PerformJoinRoomResume(t) ==
    /\ t \in joinTasks
    /\ CommitApp(performJoinRoomResume(App, t))
    /\ lastOp' = Op("performJoinRoom", t.roomName)
    /\ UNCHANGED <<nRoster, meshVars>>

PerformJoinRoomFailed(t) ==
    /\ t \in joinTasks
    /\ t.isCreating
    /\ CommitApp(performJoinRoomFailed(App, t))
    /\ lastOp' = Op("performJoinRoom", t.roomName)
    /\ UNCHANGED <<nRoster, meshVars>>

PeerJoined(roomName) ==
    /\ roomName \in rooms
    /\ nRoster < MaxRoster
    /\ CommitApp(peerJoined(App, roomName))
    /\ nRoster' = nRoster + 1
    /\ lastOp' = Op("handlePeersUpdate", roomName)
    /\ UNCHANGED meshVars

PeerLeft(roomName) ==
    /\ roomName \in rooms
    /\ peersByRoom[roomName] > 0
    /\ nRoster < MaxRoster
    /\ CommitApp(peerLeft(App, roomName))
    /\ nRoster' = nRoster + 1
    /\ lastOp' = Op("handlePeersUpdate", roomName)
    /\ UNCHANGED meshVars

\* ------------------------------------------------ useIndexedDB.js: messages
PAGE_SIZE == 40

Max(a, b) == IF a > b THEN a ELSE b

\* A call on messagesStore suspended at an await: pc names the request it waits
\* for, msgs and total hold what the request it made before returned
DbTask(op, roomName, message, offset) ==
    [op |-> op, roomName |-> roomName, message |-> message, offset |-> offset,
     pc |-> "getItem", msgs |-> <<>>, total |-> 0]

\* getMessagesPage once messagesStore.getItem has returned the list all
getMessagesPage(all, offset, limit) ==
    LET total == Len(all)
        end == Max(0, total - offset)
        start == Max(0, end - limit) IN
    [msgs |-> SubSeq(all, start + 1, end), total |-> total]

\* addMessage up to its first await: messagesStore.getItem is requested
addMessage(a, roomName, message) ==
    [a EXCEPT !.dbTasks = @ \cup {DbTask("addMessage", roomName, message, 0)}]

\* addMessage: getItem returns the stored list; the call is suspended again
\* (decryptData, blobToBase64, encryptData) before it writes
addMessageRead(a, t) ==
    [a EXCEPT !.dbTasks = (@ \ {t}) \cup
                  {[t EXCEPT !.pc = "setItem", !.msgs = a.store[t.roomName]]}]

\* addMessage: existing.push(message); messagesStore.setItem(roomName, existing)
addMessageWrite(a, t) ==
    [a EXCEPT !.dbTasks = @ \ {t},
              !.store[t.roomName] = Append(t.msgs, t.message)]

\* getMessagesPage of a suspended loadInitialMessages or handleLoadMore: getItem
\* returns the stored list and the page is cut from it
getMessagesPageRead(a, t) ==
    LET page == getMessagesPage(a.store[t.roomName], t.offset, PAGE_SIZE) IN
    [a EXCEPT !.dbTasks = (@ \ {t}) \cup
                  {[t EXCEPT !.pc = "page", !.msgs = page.msgs, !.total = page.total]}]

\* loadInitialMessages after its await
loadInitialMessagesResume(a, t) ==
    [a EXCEPT !.dbTasks = @ \ {t},
              !.msgOffset[t.roomName] = Len(t.msgs),
              !.messagesByRoom[t.roomName] = t.msgs,
              !.allLoaded[t.roomName] = Len(t.msgs) >= t.total]

loadingMore(a, roomName) ==
    \E t \in a.dbTasks : t.op = "handleLoadMore" /\ t.roomName = roomName

\* handleLoadMore up to its await of getMessagesPage(roomName, currentOffset, PAGE_SIZE)
handleLoadMore(a, roomName) ==
    IF loadingMore(a, roomName) \/ a.allLoaded[roomName] THEN a
    ELSE [a EXCEPT !.dbTasks = @ \cup
              {DbTask("handleLoadMore", roomName, 0, a.msgOffset[roomName])}]

\* handleLoadMore after its await
handleLoadMoreResume(a, t) ==
    IF Len(t.msgs) = 0
    THEN [a EXCEPT !.dbTasks = @ \ {t}, !.allLoaded[t.roomName] = TRUE]
    ELSE [a EXCEPT !.dbTasks = @ \ {t},
                   !.msgOffset[t.roomName] = t.offset + Len(t.msgs),
                   !.messagesByRoom[t.roomName] = t.msgs \o @,
                   !.allLoaded[t.roomName] = t.offset + Len(t.msgs) >= t.total]

RECURSIVE MaxOf(_)
MaxOf(q) == IF q = <<>> THEN 0 ELSE Max(Head(q), MaxOf(Tail(q)))

RECURSIVE MaxOver(_, _)
MaxOver(f, S) ==
    IF S = {} THEN 0
    ELSE LET k == CHOOSE x \in S : TRUE IN Max(MaxOf(f[k]), MaxOver(f, S \ {k}))

\* The id of the next message: larger than every id stored or passed to addMessage
NextMsg(a) == 1 + Max(MaxOver(a.store, RoomNames), MaxOver(a.persisted, RoomNames))

handleIncomingMessageMutActiveRoom(a, roomName, msg) ==
    IF a.activeRoom = NoRoom THEN a
    ELSE [a EXCEPT !.messagesByRoom[a.activeRoom] = Append(@, msg),
                   !.persisted[a.activeRoom] = Append(@, msg)]

\* handleIncomingMessage of App.jsx, called by the RoomConnection of roomName
handleIncomingMessage(a, roomName, msg) ==
    addMessage([a EXCEPT !.messagesByRoom[roomName] = Append(@, msg),
                         !.persisted[roomName] = Append(@, msg)],
               roomName, msg)

\* A message is decoded on a channel of a joined room
HandleIncomingMessage(roomName) ==
    /\ roomName \in rooms
    /\ SumOver([r \in RoomNames |-> Len(persisted[r])], RoomNames) < MaxMsgs
    /\ CommitApp(handleIncomingMessage(App, roomName, NextMsg(App)))
    /\ lastOp' = Op("handleIncomingMessage", roomName)
    /\ UNCHANGED <<nRoster, meshVars>>

AddMessageRead(t) ==
    /\ t \in dbTasks
    /\ t.op = "addMessage" /\ t.pc = "getItem"
    /\ CommitApp(addMessageRead(App, t))
    /\ lastOp' = Op("addMessage", t.roomName)
    /\ UNCHANGED <<nRoster, meshVars>>

AddMessageWrite(t) ==
    /\ t \in dbTasks
    /\ t.op = "addMessage" /\ t.pc = "setItem"
    /\ CommitApp(addMessageWrite(App, t))
    /\ lastOp' = Op("addMessage", t.roomName)
    /\ UNCHANGED <<nRoster, meshVars>>

GetMessagesPageRead(t) ==
    /\ t \in dbTasks
    /\ t.op \in {"loadInitialMessages", "handleLoadMore"} /\ t.pc = "getItem"
    /\ CommitApp(getMessagesPageRead(App, t))
    /\ lastOp' = Op("getMessagesPage", t.roomName)
    /\ UNCHANGED <<nRoster, meshVars>>

LoadInitialMessagesResume(t) ==
    /\ t \in dbTasks
    /\ t.op = "loadInitialMessages" /\ t.pc = "page"
    /\ CommitApp(loadInitialMessagesResume(App, t))
    /\ lastOp' = Op("loadInitialMessages", t.roomName)
    /\ UNCHANGED <<nRoster, meshVars>>

\* onLoadMore of the message list of the active room, once its newest page is shown
HandleLoadMore ==
    /\ activeRoom # NoRoom
    /\ \A t \in dbTasks : ~(t.op = "loadInitialMessages" /\ t.roomName = activeRoom)
    /\ handleLoadMore(App, activeRoom) # App
    /\ CommitApp(handleLoadMore(App, activeRoom))
    /\ lastOp' = Op("handleLoadMore", activeRoom)
    /\ UNCHANGED <<nRoster, meshVars>>

HandleLoadMoreResume(t) ==
    /\ t \in dbTasks
    /\ t.op = "handleLoadMore" /\ t.pc = "page"
    /\ CommitApp(handleLoadMoreResume(App, t))
    /\ lastOp' = Op("handleLoadMore", t.roomName)
    /\ UNCHANGED <<nRoster, meshVars>>

\* App with one joined room whose roster holds n peers and whose stored history is
\* the list old, with the calls loads on messagesStore under way
AppStored(n, old, loads) ==
    /\ rooms = {"lobby"}
    /\ activeRoom = "lobby"
    /\ peersByRoom = [r \in RoomNames |-> IF r = "lobby" THEN n ELSE 0]
    /\ limitModal = "null"
    /\ pendingJoinRoom = NoPending
    /\ joinTasks = {}
    /\ started = <<>>
    /\ messagesByRoom = [r \in RoomNames |-> <<>>]
    /\ persisted = [r \in RoomNames |-> <<>>]
    /\ store = [r \in RoomNames |-> IF r = "lobby" THEN old ELSE <<>>]
    /\ dbTasks = loads
    /\ msgOffset = [r \in RoomNames |-> 0]
    /\ allLoaded = [r \in RoomNames |-> FALSE]
    /\ lastOp = Op("mount", NoRoom)
    /\ nRoster = 0

\* App with one joined room whose roster holds n peers
AppStart(n) == AppStored(n, <<>>, {})

\* ------------------------------------------- RoomConnection.jsx: signalling
NoError == "null"
TimeoutText == "Connection timed out"
UnreachableText == "Could not reach the signaling server"
ServerErrorText == "Server error"

\* new WebSocket(...), with the variables the handlers of its effect run close over.
\* expired and acked are history: the 8 seconds have passed, 'joined' was handled.
NewSocket(s) ==
    [owner |-> s, readyState |-> "connecting", hadError |-> FALSE, timer |-> TRUE,
     inbox |-> <<>>, joinSent |-> FALSE, live |-> TRUE, failing |-> FALSE,
     loop |-> <<>>, loopPc |-> 0, acked |-> FALSE, expired |-> FALSE]

Envelope(type, peers, message) == [type |-> type, peers |-> peers, message |-> message]

onConnectionStatusChangeMutGlobal(w, s, st, error) ==
    [w EXCEPT !.status = [q \in Peers |-> st], !.errorText = [q \in Peers |-> error]]

\* handleConnectionStatusChange of App.jsx
onConnectionStatusChange(w, s, st, error) ==
    [w EXCEPT !.status[s] = st, !.errorText[s] = error]

\* ws.close(): frames that arrive from now on are not delivered; closing a socket
\* that is still connecting fails the connection
wsClose(w, k) ==
    IF w.socks[k].readyState \in {"connecting", "open"}
    THEN [w EXCEPT !.socks[k].readyState = "closing",
                   !.socks[k].inbox = <<>>,
                   !.socks[k].failing = (w.socks[k].readyState = "connecting")]
    ELSE w

\* The body of the effect
mountEffect(w, s) ==
    LET w1 == onConnectionStatusChange(w, s, "connecting", NoError)
    IN [w1 EXCEPT !.roster[s] = <<>>,
                  !.socks = Append(@, NewSocket(s)),
                  !.wsRef[s] = Len(w.socks) + 1]

\* The cleanup of the effect
unmountEffect(w, s) ==
    LET k == w.wsRef[s]
        w1 == [w EXCEPT !.socks[k].timer = FALSE, !.socks[k].live = FALSE]
    IN wsClose(disconnectAll(w1, s), k)

\* The timeout callback
onTimeout(w, k) ==
    LET s == w.socks[k].owner
        w1 == [w EXCEPT !.socks[k].timer = FALSE]
    IN IF w.socks[k].readyState # "open"
       THEN onConnectionStatusChange(wsClose(w1, k), s, "failed", TimeoutText)
       ELSE w1

\* The socket opens and ws.onopen runs
wsOnopen(w, k) ==
    [w EXCEPT !.socks[k].readyState = "open",
              !.socks[k].timer = FALSE,
              !.socks[k].joinSent = TRUE]

\* ws.onmessage, case 'joined'
onJoined(w, k, msg) ==
    LET s == w.socks[k].owner
        w1 == onConnectionStatusChange(w, s, "connected", NoError)
    IN joinedLoop([w1 EXCEPT !.socks[k].acked = TRUE, !.socks[k].loop = msg.peers], k)

\* ws.onmessage, case 'error'
onRelayError(w, k, msg) ==
    onConnectionStatusChange([w EXCEPT !.socks[k].hadError = TRUE],
                             w.socks[k].owner, "failed",
                             IF msg.message = "" THEN ServerErrorText ELSE msg.message)

onRelayMessageMutCallsNewcomer(w, k) ==
    LET msg == Head(w.socks[k].inbox)
        w1 == [w EXCEPT !.socks[k].inbox = Tail(@)]
        s == w.socks[k].owner
    IN IF msg.type = "joined" THEN onJoined(w1, k, msg)
       ELSE IF msg.type = "peer-joined"
            THEN initiateCall([w1 EXCEPT !.peerMeta[s] = @ \cup {msg.peers[1]}],
                              s, msg.peers[1])
       ELSE IF msg.type = "peer-left" THEN handlePeerLeft(w1, s, msg.peers[1])
       ELSE IF msg.type = "error" THEN onRelayError(w1, k, msg)
       ELSE w1

\* ws.onmessage of RoomConnection.jsx for the envelopes of the relay itself
onRelayMessage(w, k) ==
    LET msg == Head(w.socks[k].inbox)
        w1 == [w EXCEPT !.socks[k].inbox = Tail(@)]
        s == w.socks[k].owner
    IN IF msg.type = "joined" THEN onJoined(w1, k, msg)
       ELSE IF msg.type = "peer-joined"
            THEN [w1 EXCEPT !.peerMeta[s] = @ \cup {msg.peers[1]}]
       ELSE IF msg.type = "peer-left" THEN handlePeerLeft(w1, s, msg.peers[1])
       ELSE IF msg.type = "error" THEN onRelayError(w1, k, msg)
       ELSE w1

oncloseMutAlwaysIdle(w, k) ==
    onConnectionStatusChange([w EXCEPT !.socks[k].timer = FALSE,
                                       !.socks[k].readyState = "closed"],
                             w.socks[k].owner, "idle", NoError)

\* ws.onclose
onclose(w, k) ==
    LET w1 == [w EXCEPT !.socks[k].timer = FALSE, !.socks[k].readyState = "closed"]
    IN IF ~w.socks[k].hadError
       THEN onConnectionStatusChange(w1, w.socks[k].owner, "idle", NoError)
       ELSE w1

\* ws.onerror; the close event follows
onerror(w, k) ==
    LET w1 == [w EXCEPT !.socks[k].timer = FALSE,
                        !.socks[k].readyState = "closing",
                        !.socks[k].inbox = <<>>,
                        !.socks[k].failing = FALSE]
    IN onConnectionStatusChange(w1, w.socks[k].owner, "failed", UnreachableText)

\* The relay (not part of the sources): a join is acknowledged with the peers
\* already in the room, and the peers already in the room are told of the newcomer
RECURSIVE tellPeerJoined(_, _, _)
tellPeerJoined(w, ks, s) ==
    IF ks = <<>> THEN w
    ELSE tellPeerJoined(
             [w EXCEPT !.socks[Head(ks)].inbox =
                  IF w.socks[Head(ks)].readyState = "open"
                  THEN Append(@, Envelope("peer-joined", <<s>>, "")) ELSE @],
             Tail(ks), s)

relayJoin(w, k) ==
    LET peers == [i \in 1..Len(w.members) |-> w.socks[w.members[i]].owner]
        w1 == tellPeerJoined(w, w.members, w.socks[k].owner)
    IN [w1 EXCEPT !.socks[k].inbox = Append(@, Envelope("joined", peers, "")),
                  !.socks[k].joinSent = FALSE,
                  !.members = Append(@, k)]

\* The relay refuses a join
relayError(w, k, message) ==
    [w EXCEPT !.socks[k].inbox = Append(@, Envelope("error", <<>>, message)),
              !.socks[k].joinSent = FALSE]

RECURSIVE tellPeerLeft(_, _, _)
tellPeerLeft(w, ks, s) ==
    IF ks = <<>> THEN w
    ELSE tellPeerLeft(
             [w EXCEPT !.socks[Head(ks)].inbox =
                  IF w.socks[Head(ks)].readyState = "open"
                  THEN Append(@, Envelope("peer-left", <<s>>, "")) ELSE @],
             Tail(ks), s)

\* The relay forgets a connection that has gone and tells the others
relayLeave(w, k) ==
    LET rest == SelectSeq(w.members, LAMBDA x : x # k)
    IN [tellPeerLeft(w, rest, w.socks[k].owner) EXCEPT !.members = rest]

\* No mesh counter, admission state or history of the mesh changes
SessionStep ==
    UNCHANGED <<glare, appVars, nText, nFail, nDisc, nCand, nFiles, nRaw>>

\* The RoomConnection effect runs: the component mounts, or the user retries
Mount(limit, s) ==
    /\ IF wsRef[s] = 0 THEN TRUE ELSE ~socks[wsRef[s]].live
    /\ nMount < limit
    /\ nMount' = nMount + 1
    /\ Commit(mountEffect(World, s))
    /\ SessionStep

\* The cleanup of the effect runs: the user disconnects or leaves the room
Unmount(s) ==
    /\ wsRef[s] # 0
    /\ socks[wsRef[s]].live
    /\ Commit(unmountEffect(World, s))
    /\ SessionStep
    /\ UNCHANGED nMount

WsOpen(k) ==
    /\ socks[k].readyState = "connecting"
    /\ Commit(wsOnopen(World, k))
    /\ SessionStep
    /\ UNCHANGED nMount

\* Eight seconds have passed since the effect ran; the callback runs unless
\* clearTimeout was called
EightSeconds(k) ==
    /\ ~socks[k].expired
    /\ Commit(IF socks[k].timer
              THEN onTimeout([World EXCEPT !.socks[k].expired = TRUE], k)
              ELSE [World EXCEPT !.socks[k].expired = TRUE])
    /\ SessionStep
    /\ UNCHANGED nMount

RelayJoin(k) ==
    /\ socks[k].readyState = "open"
    /\ socks[k].joinSent
    /\ \A i \in 1..Len(members) : socks[members[i]].owner # socks[k].owner
    /\ Commit(relayJoin(World, k))
    /\ SessionStep
    /\ UNCHANGED nMount

RelayError(k, message) ==
    /\ socks[k].readyState = "open"
    /\ socks[k].joinSent
    /\ Commit(relayError(World, k, message))
    /\ SessionStep
    /\ UNCHANGED nMount

RelayLeave(k) ==
    /\ \E i \in 1..Len(members) : members[i] = k
    /\ socks[k].readyState \in {"closing", "closed"}
    /\ Commit(relayLeave(World, k))
    /\ SessionStep
    /\ UNCHANGED nMount

\* The relay closes the connection; frames sent before are delivered first
ServerClose(k) ==
    /\ socks[k].readyState = "open"
    /\ socks[k].inbox = <<>>
    /\ Commit([World EXCEPT !.socks[k].readyState = "closing"])
    /\ SessionStep
    /\ UNCHANGED nMount

OnRelayMessage(k) ==
    /\ socks[k].readyState = "open"
    /\ socks[k].inbox # <<>>
    /\ Commit(onRelayMessage(World, k))
    /\ SessionStep
    /\ UNCHANGED nMount

\* The connection fails, or a socket closed while connecting reports it
OnWsError(k) ==
    /\ \/ socks[k].readyState \in {"connecting", "open"}
       \/ socks[k].readyState = "closing" /\ socks[k].failing
    /\ Commit(onerror(World, k))
    /\ SessionStep
    /\ UNCHANGED nMount

OnWsClose(k) ==
    /\ socks[k].readyState = "closing"
    /\ Commit(onclose(World, k))
    /\ SessionStep
    /\ UNCHANGED nMount

\* ------------------------------------------------------------ mesh machine
\* Nothing is mounted
EmptyWorld ==
    [pcs |-> <<>>,
     peerConnections |-> [s \in Peers |-> EmptyMap],
     dataChannels |-> [s \in Peers |-> EmptyMap],
     inboundFiles |-> [s \in Peers |-> EmptyMap],
     pendingMessages |-> [s \in Peers |-> EmptyMap],
     tasks |-> {},
     net |-> [a \in Peers |-> [b \in Peers |-> <<>>]],
     roster |-> [s \in Peers |-> <<>>],
     delivered |-> [s \in Peers |-> <<>>],
     socks |-> <<>>,
     wsRef |-> [s \in Peers |-> 0],
     status |-> [s \in Peers |-> "idle"],
     errorText |-> [s \in Peers |-> NoError],
     members |-> <<>>,
     raised |-> {},
     peerMeta |-> [s \in Peers |-> {}]]

\* The effect of side s has run and its socket is open
Online(w, s) == wsOnopen(mountEffect(w, s), Len(w.socks) + 1)

\* Every side has an open socket to the relay
OnlineWorld == Online(Online(Online(EmptyWorld, "A"), "B"), "C")

InWorld(w) ==
    /\ pcs = w.pcs
    /\ peerConnections = w.peerConnections
    /\ dataChannels = w.dataChannels
    /\ inboundFiles = w.inboundFiles
    /\ pendingMessages = w.pendingMessages
    /\ tasks = w.tasks
    /\ net = w.net
    /\ roster = w.roster
    /\ delivered = w.delivered
    /\ socks = w.socks
    /\ wsRef = w.wsRef
    /\ status = w.status
    /\ errorText = w.errorText
    /\ members = w.members
    /\ raised = w.raised
    /\ peerMeta = w.peerMeta

NoEvents ==
    /\ nText = 0
    /\ nFail = 0
    /\ nDisc = 0
    /\ nCand = 0
    /\ nFiles = 0
    /\ nRaw = 0
    /\ nMount = 0
    /\ glare = FALSE

MeshInit == InWorld(OnlineWorld) /\ NoEvents

Init == MeshInit /\ AppStart(0)

\* Negotiation between the peers of one room, without application traffic
Next ==
    \/ \E s \in MeshPeers, p \in MeshPeers : InitiateCall(MaxPc, s, p)
    \/ \E t \in tasks : ResumeInitiateCall(t)
    \/ \E s \in MeshPeers, p \in MeshPeers : HandleOffer(MaxPc, s, p)
    \/ \E t \in tasks : ResumeHandleOffer(t)
    \/ \E s \in MeshPeers, p \in MeshPeers : HandleAnswer(s, p)
    \/ \E s \in MeshPeers, p \in MeshPeers : HandleIceCandidate(s, p)
    \/ \E id \in 1..Len(pcs) : OnIceCandidate(id)
    \/ \E id \in 1..Len(pcs) : OnConnected(id)
    \/ \E id \in 1..Len(pcs) : OnDataChannel(id)
    \/ \E id \in 1..Len(pcs) : ChannelOpen(id)
    \/ \E id \in 1..Len(pcs), st \in {"disconnected", "failed"} : OnConnectionLost(id, st)
    \/ \E s \in MeshPeers : DisconnectAll(s)

vars == <<meshVars, appVars>>

Spec == Init /\ [][Next]_vars

\* Negotiation together with text traffic
NextText ==
    \/ \E s \in MeshPeers, p \in MeshPeers : InitiateCall(MaxPcText, s, p)
    \/ \E t \in tasks : ResumeInitiateCall(t)
    \/ \E s \in MeshPeers, p \in MeshPeers : HandleOffer(MaxPcText, s, p)
    \/ \E t \in tasks : ResumeHandleOffer(t)
    \/ \E s \in MeshPeers, p \in MeshPeers : HandleAnswer(s, p)
    \/ \E id \in 1..Len(pcs) : OnConnected(id)
    \/ \E id \in 1..Len(pcs) : OnDataChannel(id)
    \/ \E id \in 1..Len(pcs) : ChannelOpen(id)
    \/ \E id \in 1..Len(pcs), st \in {"disconnected", "failed"} : OnConnectionLost(id, st)
    \/ \E s \in MeshPeers : DisconnectAll(s)
    \/ \E s \in MeshPeers : BroadcastText(s)
    \/ \E id \in 1..Len(pcs) : HandleDataChannelMessage(id)

SpecText == Init /\ [][NextText]_vars

\* ------------------------------------------------------------ data plane
\* generateUsername() never returns the empty string
Username(s) ==
    CASE s = "A" -> "QuietRaven"
      [] s = "B" -> "BoldMoose"
      [] OTHER -> "CalmOtter"

\* localPeerIdRef / localUserRef as read by broadcastFile
SenderMeta(s) == [senderId |-> s, senderName |-> Username(s), avatarSeed |-> s]

\* The files a user picks: empty, one byte, one full chunk, one byte more,
\* two chunks and a part
Files ==
    { [id |-> 1, name |-> "empty.bin", type |-> EmptyMime, size |-> 0],
      [id |-> 2, name |-> "a.txt", type |-> Mime("text", "plain"), size |-> 1],
      [id |-> 3, name |-> "photo.png", type |-> Mime("image", "png"), size |-> 16384],
      [id |-> 4, name |-> "clip.mp4", type |-> Mime("video", "mp4"), size |-> 16385],
      [id |-> 5, name |-> "", type |-> Mime("application", "pdf"), size |-> 40000] }

RECURSIVE sendFileEach(_, _, _, _, _)
\* call tells the sendFile calls of two broadcastFile calls with one file apart
sendFileEach(w, s, ids, file, call) ==
    IF ids = {} THEN w
    ELSE LET p == CHOOSE x \in ids : TRUE
             ch == w.dataChannels[s][p]
             w1 == IF w.pcs[ch].dc = "open"
                   THEN [w EXCEPT !.tasks = @ \cup {Task("sendFile", ch, call, file)}]
                   ELSE w
         IN sendFileEach(w1, s, ids \ {p}, file, call)

\* broadcastFile: one sendFile per open channel, each suspended at file.arrayBuffer()
broadcastFile(w, s, file, call) ==
    sendFileEach(w, s, DOMAIN w.dataChannels[s], file, call)

sendFileResumeMutInterleave(w, t) ==
    LET w0 == [w EXCEPT !.tasks = @ \ {t}]
        frames == sendFile(t.file, SenderMeta(w.pcs[t.pc].owner))
    IN IF w.pcs[t.pc].dc = "open"
       THEN [w0 EXCEPT !.pcs[t.pc].out = IF @ = <<>> THEN frames
                                         ELSE <<Head(@)>> \o frames \o Tail(@),
                       !.pcs[t.pc].files = Append(@, t.file)]
       ELSE w0

\* sendFile after file.arrayBuffer(): channel.send throws unless the channel is open
sendFileResume(w, t) ==
    LET w0 == [w EXCEPT !.tasks = @ \ {t}]
    IN IF w.pcs[t.pc].dc = "open"
       THEN [w0 EXCEPT !.pcs[t.pc].out = @ \o sendFile(t.file, SenderMeta(w.pcs[t.pc].owner)),
                       !.pcs[t.pc].files = Append(@, t.file)]
       ELSE w0

BroadcastFile(s, file) ==
    /\ nFiles < MaxFiles
    /\ nFiles' = nFiles + 1
    /\ Commit(broadcastFile(World, s, file, nFiles + 1))
    /\ History
    /\ UNCHANGED <<nText, nFail, nDisc, nCand, nRaw>>

ResumeSendFile(t) ==
    /\ t \in tasks
    /\ t.op = "sendFile"
    /\ Commit(sendFileResume(World, t))
    /\ History
    /\ UNCHANGED <<nText, nFail, nDisc, nCand, nFiles, nRaw>>

\* A participant that does not follow the framing protocol
Adversary == "C"

\* The participants that send files in the data-plane specification
Senders == {"B"}

RawFrames ==
    { [kind |-> "binary", file |-> 9, start |-> 0, end |-> 7],
      StringData(FileEnd),
      StringData(FileMeta([id |-> 9, name |-> "x.png", type |-> Mime("image", "png"),
                           size |-> 7],
                          [senderId |-> "B", senderName |-> "BoldMoose", avatarSeed |-> "B"])),
      StringData([type |-> "ping"]),
      [kind |-> "string", valid |-> FALSE, json |-> [type |-> "none"]],
      [kind |-> "blob"] }

\* channel.send(frame) by the adversary on its open channel
SendRaw(id, frame) ==
    /\ id \in 1..Len(pcs)
    /\ pcs[id].owner = Adversary
    /\ pcs[id].dc = "open"
    /\ nRaw < MaxRaw
    /\ nRaw' = nRaw + 1
    /\ Commit([World EXCEPT !.pcs[id].out = Append(@, frame)])
    /\ History
    /\ UNCHANGED <<nText, nFail, nDisc, nCand, nFiles>>

\* The world after a initiated a call to b and the channel between them opened
Handshake(w, a, b) ==
    LET ia == Len(w.pcs) + 1
        ib == Len(w.pcs) + 2
        w1 == initiateCall(w, a, b)
        w2 == initiateCallResume(w1, Task("initiateCall", ia, 0, NoFile))
        w3 == handleOffer(Dequeue(w2, b, a), b, a, Head(w2.net[a][b]).sdp)
        w4 == handleOfferResume(w3, Task("handleOffer", ib, ia, NoFile))
        w5 == handleAnswer(Dequeue(w4, a, b), a, b, Head(w4.net[b][a]).sdp)
        w6 == onConnected(onConnected(w5, ia), ib)
        w7 == ondatachannel(w6, ib)
    IN onopen(onopen(w7, a, b, ia), b, a, ib)

\* A joined a room in which B and C were present; all channels are open
DataWorld == Handshake(Handshake(OnlineWorld, "A", "B"), "A", "C")

DataInit == InWorld(DataWorld) /\ NoEvents /\ AppStart(0)

NextData ==
    \/ \E s \in Senders, file \in Files : BroadcastFile(s, file)
    \/ \E t \in tasks : ResumeSendFile(t)
    \/ \E id \in 1..Len(pcs), frame \in RawFrames : SendRaw(id, frame)
    \/ \E id \in 1..Len(pcs) : HandleDataChannelMessage(id)

SpecData == DataInit /\ [][NextData]_vars

\* Teardown and renegotiation on a mesh that carries files and text; the files
\* picked here have two chunks, and the side that sends them is the one that calls
\* again and sends text
TeardownFiles == {file \in Files : file.size = CHUNK_SIZE + 1}

NextTeardown ==
    \/ \E s \in Senders, file \in TeardownFiles : BroadcastFile(s, file)
    \/ \E t \in tasks : ResumeSendFile(t)
    \/ \E id \in 1..Len(pcs) : HandleDataChannelMessage(id)
    \/ \E s \in Senders, p \in MeshPeers : InitiateCall(MaxPcTeardown, s, p)
    \/ \E t \in tasks : ResumeInitiateCall(t)
    \/ \E s \in Senders : BroadcastText(s)
    \/ \E id \in 1..Len(pcs), st \in {"disconnected", "failed"} : OnConnectionLost(id, st)
    \/ \E s \in MeshPeers : DisconnectAll(s)
    \/ \E id \in 1..Len(pcs) : ChannelClose(id)

SpecTeardown == DataInit /\ [][NextTeardown]_vars

\* A sender of files calls a receiver again while a transfer is under way: the
\* receiver replaces its record, and the new channel carries the next file
NextReplace ==
    \/ \E s \in Senders, file \in TeardownFiles : BroadcastFile(s, file)
    \/ \E t \in tasks : ResumeSendFile(t)
    \/ \E id \in 1..Len(pcs) : HandleDataChannelMessage(id)
    \/ \E s \in Senders, p \in MeshPeers : InitiateCall(MaxPcTeardown, s, p)
    \/ \E t \in tasks : ResumeInitiateCall(t)
    \/ \E s \in MeshPeers, p \in Senders : HandleOffer(MaxPcReplace, s, p)
    \/ \E t \in tasks : ResumeHandleOffer(t)
    \/ \E s \in Senders, p \in MeshPeers : HandleAnswer(s, p)
    \/ \E id \in 1..Len(pcs) : OnConnected(id)
    \/ \E id \in 1..Len(pcs) : OnDataChannel(id)
    \/ \E id \in 1..Len(pcs) : ChannelOpen(id)
    \/ \E id \in 1..Len(pcs), st \in {"disconnected", "failed"} : OnConnectionLost(id, st)

SpecReplace == DataInit /\ [][NextReplace]_vars

\* Messages arriving in the joined rooms while the user joins and selects rooms
NextRooms ==
    \/ \E r \in RoomNames, c \in BOOLEAN : HandleJoinRoom(r, c)
    \/ \E t \in joinTasks : PerformJoinRoomResume(t)
    \/ \E r \in RoomNames : HandleSelectRoom(r)
    \/ \E r \in RoomNames : HandleIncomingMessage(r)

SpecRooms == Init /\ [][NextRooms]_vars

\* onEnterChat has called loadInitialMessages for the saved room, whose stored
\* history is empty, shorter than a page or one message longer than a page;
\* messages arrive while the history is loaded page by page
StoreInit ==
    /\ MeshInit
    /\ \E n \in {0, 1, PAGE_SIZE + 1} :
           AppStored(0, [i \in 1..n |-> i],
                     {DbTask("loadInitialMessages", "lobby", 0, 0)})

NextStore ==
    \/ \E t \in dbTasks : GetMessagesPageRead(t)
    \/ \E t \in dbTasks : LoadInitialMessagesResume(t)
    \/ HandleLoadMore
    \/ \E t \in dbTasks : HandleLoadMoreResume(t)
    \/ \E r \in RoomNames : HandleIncomingMessage(r)
    \/ \E t \in dbTasks : AddMessageRead(t)
    \/ \E t \in dbTasks : AddMessageWrite(t)

SpecStore == StoreInit /\ [][NextStore]_vars

\* Admission control of App, with the roster near the two limits
AdmitInit == MeshInit /\ \E n \in StartTotals : AppStart(n)

NextAdmit ==
    \/ \E r \in RoomNames, c \in BOOLEAN : HandleJoinRoom(r, c)
    \/ ConfirmPendingJoin
    \/ CancelWarning
    \/ OpenNewTabAndCancel
    \/ CancelPrompt
    \/ \E r \in RoomNames : HandleSelectRoom(r)
    \/ \E t \in joinTasks : PerformJoinRoomResume(t)
    \/ \E t \in joinTasks : PerformJoinRoomFailed(t)
    \/ \E r \in RoomNames : PeerJoined(r)
    \/ \E r \in RoomNames : PeerLeft(r)

SpecAdmit == AdmitInit /\ [][NextAdmit]_vars

\* The signalling session of one peer, alone in its room
SessionPeers == {"A"}

\* The messages of the relay's error envelopes
RelayMessages == {"Wrong password", "Room not found"}

SessionInit == InWorld(EmptyWorld) /\ NoEvents /\ AppStart(0)

NextSession ==
    \/ \E s \in SessionPeers : Mount(MaxMount, s)
    \/ \E s \in SessionPeers : Unmount(s)
    \/ \E k \in 1..Len(socks) : WsOpen(k)
    \/ \E k \in 1..Len(socks) : EightSeconds(k)
    \/ \E k \in 1..Len(socks) : RelayJoin(k)
    \/ \E k \in 1..Len(socks), m \in RelayMessages : RelayError(k, m)
    \/ \E k \in 1..Len(socks) : RelayLeave(k)
    \/ \E k \in 1..Len(socks) : ServerClose(k)
    \/ \E k \in 1..Len(socks) : OnRelayMessage(k)
    \/ \E k \in 1..Len(socks) : OnWsError(k)
    \/ \E k \in 1..Len(socks) : OnWsClose(k)

SpecSession == SessionInit /\ [][NextSession]_vars

\* Every peer joins the room once, in any order, and nothing fails
NextJoin ==
    \/ \E k \in 1..Len(socks) : RelayJoin(k)
    \/ \E k \in 1..Len(socks) : OnRelayMessage(k)
    \/ \E t \in tasks : ResumeInitiateCall(t)
    \/ \E s \in Peers, p \in Peers : HandleOffer(Cardinality(Peers) * Cardinality(Peers), s, p)
    \/ \E t \in tasks : ResumeHandleOffer(t)
    \/ \E s \in Peers, p \in Peers : HandleAnswer(s, p)

SpecJoin == Init /\ [][NextJoin]_vars

\* Joining, with one side that leaves the room and comes back.  At the start the
\* relay has admitted A, B and C in this order and no envelope has been handled;
\* C does not get to handle its envelopes while the others negotiate.
RejoinInit ==
    /\ InWorld(relayJoin(relayJoin(relayJoin(OnlineWorld, 1), 2), 3))
    /\ NoEvents
    /\ AppStart(0)

NextRejoin ==
    \/ \E k \in 1..Len(socks) : RelayJoin(k)
    \/ \E k \in 1..Len(socks) : socks[k].owner \in MeshPeers /\ OnRelayMessage(k)
    \/ \E t \in tasks : ResumeInitiateCall(t)
    \/ \E s \in MeshPeers, p \in MeshPeers : HandleOffer(MaxPcTeardown, s, p)
    \/ \E t \in tasks : ResumeHandleOffer(t)
    \/ \E s \in MeshPeers, p \in MeshPeers : HandleAnswer(s, p)
    \/ \E s \in SessionPeers : Unmount(s)
    \/ \E s \in SessionPeers : Mount(MaxRejoin, s)
    \/ \E k \in 1..Len(socks) : WsOpen(k)
    \/ \E k \in 1..Len(socks) : RelayLeave(k)
    \/ \E k \in 1..Len(socks) : OnWsClose(k)

SpecRejoin == RejoinInit /\ [][NextRejoin]_vars

\* ------------------------------------------------------------------ claims
LivePcs(s, p) ==
    {id \in 1..Len(pcs) : pcs[id].owner = s /\ pcs[id].peer = p /\ ~pcs[id].closed}

\* C1: a side never holds two live connection records for one peer, and every
\* live record is the one registered for its peer: a renegotiation has closed and
\* removed the previous record by the time the new one is registered.
C1_OneRecordPerPeer ==
    \A s \in Peers, p \in Peers :
        /\ Cardinality(LivePcs(s, p)) <= 1
        /\ \A id \in LivePcs(s, p) :
               Has(peerConnections[s], p) /\ peerConnections[s][p] = id

\* C1 witness: a record for a peer was replaced by a renegotiation
C1_Witness ==
    \E s \in Peers, p \in Peers :
        /\ LivePcs(s, p) # {}
        /\ \E id \in 1..Len(pcs) :
               pcs[id].owner = s /\ pcs[id].peer = p /\ pcs[id].closed

\* No relay envelope, suspended operation or transport event is outstanding
Settled ==
    /\ \A a \in Peers, b \in Peers : net[a][b] = <<>>
    /\ tasks = {}
    /\ \A id \in 1..Len(pcs) :
           Transportable(pcs, id) =>
               /\ pcs[id].connectionState # "new"
               /\ pcs[id].dc = "open"

RecordOpen(s, p) ==
    /\ Has(peerConnections[s], p)
    /\ Cardinality(LivePcs(s, p)) = 1
    /\ pcs[peerConnections[s][p]].dc = "open"

\* C2: after two opposite offers were in flight at once, and everything has been
\* delivered with no transport failure or teardown, each side holds exactly one
\* record for the other and that record is open.
C2_GlareResolves ==
    (glare /\ Settled /\ nFail = 0 /\ nDisc = 0) =>
        \A s \in MeshPeers, p \in MeshPeers : s # p => RecordOpen(s, p)

\* The text ids of the text frames in a sequence of frames, in order
RECURSIVE TextIds(_)
TextIds(frames) ==
    IF frames = <<>> THEN <<>>
    ELSE (IF Head(frames).kind = "string" /\ Head(frames).valid
             /\ Head(frames).json.type = "text"
          THEN <<Head(frames).json.text>> ELSE <<>>)
         \o TextIds(Tail(frames))

IssuedTexts(id) == [i \in 1..Len(pcs[id].issued) |-> pcs[id].issued[i].text]

Queue(s, p) == IF Has(pendingMessages[s], p) THEN pendingMessages[s][p] ELSE <<>>

Payloads(queue) == [i \in 1..Len(queue) |-> queue[i].payload]

\* C3: a text frame broadcast while a peer's channel is connecting is kept, in
\* issue order, in that peer's queue until the channel opens, and once the channel
\* is open the frames sent on it are exactly the frames issued for it, in issue order.
C3_QueuedTextSentInOrder ==
    \A id \in 1..Len(pcs) :
        /\ (pcs[id].dc = "connecting" /\ pcs[id].issued # <<>>) =>
               TextIds(Payloads(Queue(pcs[id].owner, pcs[id].peer))) = IssuedTexts(id)
        /\ pcs[id].dc = "open" => TextIds(pcs[id].out) = IssuedTexts(id)

\* C3 witness: a channel opened after two frames had been queued for it
C3_Witness ==
    \E id \in 1..Len(pcs) :
        /\ pcs[id].dc = "open"
        /\ Len(pcs[id].issued) >= 2
        /\ pcs[id].issued[1].queued
        /\ pcs[id].issued[2].queued

NoDuplicates(seq) == \A i, j \in 1..Len(seq) : seq[i] = seq[j] => i = j

\* C4: when a channel becomes open, the frames queued for its peer are appended to
\* what was sent on it, once each and in queue order, and the peer's queue is gone;
\* and no text frame is ever sent twice on the channels to one peer.
C4_Step ==
    /\ \A id \in 1..Len(pcs) :
           (pcs[id].dc = "connecting" /\ pcs'[id].dc = "open") =>
               /\ pcs'[id].out = pcs[id].out \o Payloads(Queue(pcs[id].owner, pcs[id].peer))
               /\ ~Has(pendingMessages'[pcs[id].owner], pcs[id].peer)
    /\ \A id \in 1..Len(pcs') : NoDuplicates(TextIds(pcs'[id].out))
    /\ \A i, j \in 1..Len(pcs') :
           (i # j /\ pcs'[i].owner = pcs'[j].owner /\ pcs'[i].peer = pcs'[j].peer) =>
               \A k \in 1..Len(TextIds(pcs'[i].out)), l \in 1..Len(TextIds(pcs'[j].out)) :
                   TextIds(pcs'[i].out)[k] # TextIds(pcs'[j].out)[l]

ArtifactsFrom(s, p) ==
    LET a == SelectSeq(delivered[s],
                       LAMBDA d : d.from = p /\ d.msg.type \in {"media", "file"})
    IN [i \in 1..Len(a) |-> a[i].msg]

ArtifactMatches(a, file, sender) ==
    /\ Bytes(a.blob.parts) = FileBytes(file)
    /\ a.mimeType = file.type
    /\ a.fileName = file.name
    /\ a.senderId = sender
    /\ a.senderName = Username(sender)

\* C5: on a channel whose sender follows the protocol, the artifacts the receiver
\* emits are, one for one and in order, the files sent: each has the bytes, the
\* MIME type, the file name and the sender identity of its file, and once every
\* frame has been received there is exactly one artifact per file.
C5_FileRoundTrip ==
    \A r \in 1..Len(pcs) :
        (Paired(pcs, r) /\ pcs[r].peer # Adversary) =>
            LET q == pcs[r].remote
                got == ArtifactsFrom(pcs[r].owner, pcs[r].peer)
            IN /\ Len(got) <= Len(pcs[q].files)
               /\ \A i \in 1..Len(got) :
                      ArtifactMatches(got[i], pcs[q].files[i], pcs[q].owner)
               /\ (pcs[r].rcvd = Len(pcs[q].out)) => Len(got) = Len(pcs[q].files)

\* C5 witness: two files, one of them of several chunks, were sent and reassembled
C5_Witness ==
    \E r \in 1..Len(pcs) :
        /\ Paired(pcs, r)
        /\ pcs[r].peer # Adversary
        /\ Len(ArtifactsFrom(pcs[r].owner, pcs[r].peer)) = 2
        /\ \E i \in 1..2 : pcs[pcs[r].remote].files[i].size > CHUNK_SIZE

\* The frames of a log that are not text frames
FileFrames(frames) ==
    SelectSeq(frames, LAMBDA f : ~(f.kind = "string" /\ f.valid /\ f.json.type = "text"))

\* The number of binary frames at the head of a sequence of frames
RECURSIVE ChunkRun(_)
ChunkRun(frames) ==
    IF frames # <<>> /\ Head(frames).kind = "binary"
    THEN 1 + ChunkRun(Tail(frames)) ELSE 0

IsCeilOf(n, size) ==
    IF size = 0 THEN n = 0
    ELSE n * CHUNK_SIZE >= size /\ (n - 1) * CHUNK_SIZE < size

\* A log of whole transfers: file-meta, ceil(size / 16384) chunks at ascending
\* offsets, each full but possibly the last, then file-end
RECURSIVE WellChunked(_)
WellChunked(frames) ==
    IF frames = <<>> THEN TRUE
    ELSE LET m == Head(frames)
             n == ChunkRun(Tail(frames))
         IN /\ m.kind = "string" /\ m.valid /\ m.json.type = "file-meta"
            /\ IsCeilOf(n, m.json.size)
            /\ m.json.totalChunks = n
            /\ \A k \in 1..n :
                   LET c == frames[1 + k]
                   IN /\ c.start = (k - 1) * CHUNK_SIZE
                      /\ c.end - c.start <= CHUNK_SIZE
                      /\ c.end - c.start > 0
                      /\ (k < n => c.end - c.start = CHUNK_SIZE)
                      /\ (k = n => c.end = m.json.size)
            /\ Len(frames) >= n + 2
            /\ frames[n + 2].kind = "string"
            /\ frames[n + 2].valid
            /\ frames[n + 2].json.type = "file-end"
            /\ WellChunked(SubSeq(frames, n + 3, Len(frames)))

\* C6: what sendFile puts on a channel for a file of S bytes is file-meta declaring
\* ceil(S / 16384) chunks, exactly that many chunks in ascending offset order, none
\* longer than 16384 bytes and all but the last exactly 16384 bytes, then file-end.
C6_ChunkCount ==
    \A q \in 1..Len(pcs) :
        pcs[q].owner # Adversary => WellChunked(FileFrames(pcs[q].out))

\* C6 witness: a file of 40000 bytes went out as three chunks, the last one partial
C6_Witness ==
    \E q \in 1..Len(pcs) :
        /\ pcs[q].owner # Adversary
        /\ \E i \in 1..Len(pcs[q].out) :
               /\ pcs[q].out[i].kind = "binary"
               /\ pcs[q].out[i].start = 2 * CHUNK_SIZE
               /\ pcs[q].out[i].end = 40000

\* C7: a request to join a room that is not in the joined-rooms list, made at a
\* running total t: with t <= 249 performJoinRoom starts at once and no modal or
\* pending request is touched; with 250 <= t < 450 nothing starts, the request is
\* parked and the warning is shown, and it starts on the confirmation or is cleared
\* on the cancellation; with t >= 450 nothing starts and nothing is parked.  A join
\* of a new room starts in no other way.
C7_Step ==
    LET t == totalPeers(peersByRoom)
        r == lastOp'.roomName
        n == Len(started)
    IN
    /\ (lastOp'.op = "handleJoinRoom" /\ r \notin rooms) =>
        /\ (t <= 249) =>
              /\ Len(started') = n + 1
              /\ started'[n + 1].roomName = r
              /\ \E c \in BOOLEAN : [roomName |-> r, isCreating |-> c] \in joinTasks'
              /\ limitModal' = limitModal
              /\ pendingJoinRoom' = pendingJoinRoom
        /\ (250 <= t /\ t < 450) =>
              /\ started' = started
              /\ joinTasks' = joinTasks
              /\ limitModal' = "warning250"
              /\ pendingJoinRoom'.roomName = r
        /\ (t >= 450) =>
              /\ started' = started
              /\ joinTasks' = joinTasks
              /\ limitModal' = "prompt450"
              /\ pendingJoinRoom' = pendingJoinRoom
    /\ (lastOp'.op = "confirmPendingJoin" /\ pendingJoinRoom # NoPending) =>
        /\ Len(started') = n + 1
        /\ started'[n + 1].roomName = pendingJoinRoom.roomName
        /\ pendingJoinRoom' = NoPending
        /\ limitModal' = "null"
    /\ (lastOp'.op = "cancelWarning") =>
        /\ started' = started
        /\ joinTasks' = joinTasks
        /\ pendingJoinRoom' = NoPending
        /\ limitModal' = "null"
    /\ (Len(started') > n /\ started'[n + 1].isNew) =>
        \/ lastOp'.op = "handleJoinRoom" /\ t <= 249
        \/ lastOp'.op = "confirmPendingJoin" /\ limitModal = "warning250"

C7_AdmissionByTotal == [][C7_Step]_vars

\* C7 witness: a join of a new room requested at a total of exactly 250 was parked,
\* and it started when the warning was confirmed
C7_Witness ==
    /\ lastOp.op = "confirmPendingJoin"
    /\ started # <<>>
    /\ started[Len(started)].isNew
    /\ started[Len(started)].total = 250
    /\ started[Len(started)].roomName = lastOp.roomName
    /\ pendingJoinRoom = NoPending

\* C8: performJoinRoom is never started for a room that is not in the joined-rooms
\* list while the running total is 450 or more, whether it is started by the
\* request itself or by the confirmation of the warning.
C8_NoNewJoinAtHardLimit ==
    \A i \in 1..Len(started) : started[i].isNew => started[i].total < 450

\* C9: re-joining a room of the joined-rooms list starts performJoinRoom at once,
\* and selecting such a room makes it the active room, whatever the running total
\* is; neither shows a modal or parks a request.
C9_Step ==
    LET r == lastOp'.roomName
        n == Len(started)
    IN
    /\ (lastOp'.op = "handleJoinRoom" /\ r \in rooms) =>
        /\ Len(started') = n + 1
        /\ started'[n + 1].roomName = r
        /\ \E c \in BOOLEAN : [roomName |-> r, isCreating |-> c] \in joinTasks'
        /\ limitModal' = limitModal
        /\ pendingJoinRoom' = pendingJoinRoom
    /\ (lastOp'.op = "handleSelectRoom" /\ r \in rooms) =>
        /\ activeRoom' = r
        /\ started' = started
        /\ limitModal' = limitModal
        /\ pendingJoinRoom' = pendingJoinRoom

C9_RejoinAndSelectUngated == [][C9_Step]_vars

\* C9 witness: a room of the joined-rooms list was re-joined at a total of 450 or more
C9_Witness ==
    /\ lastOp.op = "handleJoinRoom"
    /\ started # <<>>
    /\ ~started[Len(started)].isNew
    /\ started[Len(started)].roomName = lastOp.roomName
    /\ started[Len(started)].total >= 450
    /\ limitModal = "null"

\* Every peer has joined, every envelope was delivered and handled, and no
\* operation is suspended
JoinSettled ==
    /\ \A s \in Peers : \E i \in 1..Len(members) : socks[members[i]].owner = s
    /\ \A k \in 1..Len(socks) :
           /\ socks[k].inbox = <<>>
           /\ socks[k].loop = <<>>
           /\ socks[k].loopPc = 0
    /\ \A a \in Peers, b \in Peers : net[a][b] = <<>>
    /\ tasks = {}

\* C11: when every peer of the room has joined, in whatever order, and every
\* envelope has been delivered with no negotiation left suspended, the roster of
\* each peer lists each other peer once and nothing else.
C11_RosterConverges ==
    JoinSettled =>
        \A s \in Peers :
            /\ {roster[s][i] : i \in 1..Len(roster[s])} = Peers \ {s}
            /\ Len(roster[s]) = Cardinality(Peers) - 1

\* C11 witness: three peers have joined, the last one called the two others one
\* after the other, and everything has settled
C11_Witness ==
    /\ JoinSettled
    /\ Len(pcs) = 6
    /\ \A s \in Peers : Len(roster[s]) = 2
    /\ \E s \in Peers : \A id \in 1..Len(pcs) : pcs[id].owner = s => pcs[id].role = "initiator"

\* C12: when the eight seconds of a mounted session pass and no 'joined' has been
\* handled in that session, the connection status of the room is failed after
\* that step, whether the socket had opened or not.
C12_Step ==
    \A k \in 1..Len(socks) :
        (/\ socks[k].live
         /\ ~socks[k].acked
         /\ ~socks[k].expired
         /\ socks'[k].expired) =>
            status'[socks[k].owner] = "failed"

C12_TimeoutFailsJoin == [][C12_Step]_vars

\* The step is an action of the user on the session of side s: the effect runs
\* again or is cleaned up
UserStep(s) ==
    \/ nMount' # nMount
    \/ wsRef[s] # 0 /\ socks'[wsRef[s]].live # socks[wsRef[s]].live

\* C13: once the status of a room is failed with the message of the signalling
\* timeout or of the unreachable relay, every step that is not an action of the
\* user leaves the status failed with the same message and opens no socket.
C13_Step ==
    \A s \in Peers :
        (/\ status[s] = "failed"
         /\ errorText[s] \in {TimeoutText, UnreachableText}
         /\ ~UserStep(s)) =>
            /\ status'[s] = "failed"
            /\ errorText'[s] = errorText[s]
            /\ Len(socks') = Len(socks)

C13_FailedUntilRetry == [][C13_Step]_vars

\* C14: handling an error envelope of the relay leaves the status of the room
\* failed with exactly the message of the envelope; the close of that socket
\* afterwards changes neither the status nor the message; and a socket is opened
\* only by a run of the effect.
C14_Step ==
    /\ \A k \in 1..Len(socks) :
           /\ (/\ socks[k].readyState = "open"
               /\ socks[k].inbox # <<>>
               /\ Head(socks[k].inbox).type = "error"
               /\ socks'[k].readyState = "open"
               /\ socks'[k].inbox = Tail(socks[k].inbox)) =>
                  /\ status'[socks[k].owner] = "failed"
                  /\ errorText'[socks[k].owner] = Head(socks[k].inbox).message
           /\ (/\ socks[k].hadError
               /\ socks[k].readyState = "closing"
               /\ socks'[k].readyState = "closed") =>
                  /\ status'[socks[k].owner] = status[socks[k].owner]
                  /\ errorText'[socks[k].owner] = errorText[socks[k].owner]
    /\ Len(socks') > Len(socks) => nMount' = nMount + 1

Negotiating(s, p) ==
    /\ Has(peerConnections[s], p)
    /\ pcs[peerConnections[s][p]].role = "initiator"
    /\ pcs[peerConnections[s][p]].signalingState = "have-local-offer"

\* C15: when an answer is handled, it completes the record of its sender if that
\* record is an initiator with its offer outstanding; otherwise the answer is
\* ignored: no record, channel, queue, transfer slot or roster changes, nothing
\* is sent, and the call is not rejected.
C15_Step ==
    \A s \in Peers, from \in Peers :
        (/\ net[from][s] # <<>>
         /\ Head(net[from][s]).type = "answer"
         /\ net'[from][s] = Tail(net[from][s])) =>
            IF Negotiating(s, from)
            THEN /\ pcs'[peerConnections[s][from]].remote = Head(net[from][s]).sdp
                 /\ pcs'[peerConnections[s][from]].signalingState = "stable"
            ELSE /\ UNCHANGED <<pcs, peerConnections, dataChannels, inboundFiles,
                                pendingMessages, tasks, roster, delivered>>
                 /\ \A a \in Peers, b \in Peers :
                        <<a, b>> # <<from, s>> => net'[a][b] = net[a][b]
                 /\ raised' = raised

C15_StaleAnswerIgnored == [][C15_Step]_vars

\* C16: handling an offer of peer P closes whatever record the side held for P and
\* registers one fresh record in role responder, the only live record for P; when
\* the handling completes on that record, exactly one answer to that offer has been
\* sent to P and P is in the roster.
C16_Step ==
    /\ \A s \in Peers, from \in Peers :
           (/\ net[from][s] # <<>>
            /\ Head(net[from][s]).type = "offer"
            /\ net'[from][s] = Tail(net[from][s])) =>
               LET id == Len(pcs) + 1 IN
               /\ Len(pcs') = id
               /\ peerConnections'[s][from] = id
               /\ pcs'[id].role = "responder"
               /\ ~pcs'[id].closed
               /\ \A x \in 1..Len(pcs) :
                      (pcs[x].owner = s /\ pcs[x].peer = from) => pcs'[x].closed
               /\ ~Has(dataChannels'[s], from)
    /\ \A t \in tasks :
           (t.op = "handleOffer" /\ t \notin tasks' /\ ~pcs[t.pc].closed) =>
               LET s == pcs[t.pc].owner
                   p == pcs[t.pc].peer
               IN /\ net'[s][p] = Append(net[s][p],
                                         [type |-> "answer", to |-> p, sdp |-> t.pc])
                  /\ \E i \in 1..Len(roster'[s]) : roster'[s][i] = p
                  /\ peerConnections'[s][p] = t.pc
                  /\ pcs'[t.pc].role = "responder"
                  /\ pcs'[t.pc].remote = t.sdp

C16_OfferSupersedes == [][C16_Step]_vars

\* C16 witness: a side that had sent an offer of its own handled the offer of the
\* same peer: its offering record is closed, and the responder record has answered
C16_Witness ==
    \E x \in 1..Len(pcs), y \in 1..Len(pcs) :
        /\ pcs[x].owner = pcs[y].owner
        /\ pcs[x].peer = pcs[y].peer
        /\ pcs[x].role = "initiator" /\ pcs[x].localSet /\ pcs[x].closed
        /\ pcs[y].role = "responder" /\ pcs[y].localSet /\ ~pcs[y].closed
        /\ x < y
        /\ \E i \in 1..Len(roster[pcs[y].owner]) : roster[pcs[y].owner][i] = pcs[y].peer

\* C17: a suspended initiateCall or handleOffer whose record was closed in the
\* meantime resumes without effect: no record or channel is registered, no queue is
\* touched, no offer or answer is sent and the roster is not extended.
C17_Step ==
    \A t \in tasks :
        (pcs[t.pc].closed /\ t \notin tasks') =>
            UNCHANGED <<pcs, peerConnections, dataChannels, inboundFiles,
                        pendingMessages, net, roster>>

C17_TeardownCancels == [][C17_Step]_vars

\* C17 witness: the last record a side made for a peer was torn down before its
\* negotiation resumed; the resumption has happened and the peer has no record
C17_Witness ==
    \E x \in 1..Len(pcs) :
        /\ pcs[x].closed
        /\ ~pcs[x].localSet
        /\ \A y \in 1..Len(pcs) :
               (pcs[y].owner = pcs[x].owner /\ pcs[y].peer = pcs[x].peer) => y <= x
        /\ \A t \in tasks : t.pc # x
        /\ ~Has(peerConnections[pcs[x].owner], pcs[x].peer)
        /\ raised # {}

\* C18: in every state cleanupPeer on a peer without a record changes nothing and
\* raises nothing, cleanupPeer and disconnectAll applied twice give the state of one
\* application, and after them the peer (every peer, for disconnectAll) has no
\* record, no channel, no queue of pending messages and no inbound transfer.
C18_TeardownIdempotent ==
    \A s \in Peers :
        /\ \A p \in Peers :
               LET w1 == cleanupPeer(World, s, p) IN
               /\ ~Has(peerConnections[s], p) => w1 = World
               /\ cleanupPeer(w1, s, p) = w1
               /\ w1.raised = raised
               /\ ~Has(w1.peerConnections[s], p)
               /\ ~Has(w1.dataChannels[s], p)
               /\ ~Has(w1.pendingMessages[s], p)
               /\ ~Has(w1.inboundFiles[s], p)
               /\ Has(peerConnections[s], p) => w1.pcs[peerConnections[s][p]].closed
        /\ LET w2 == disconnectAll(World, s) IN
               /\ disconnectAll(w2, s) = w2
               /\ w2.raised = raised
               /\ DOMAIN w2.peerConnections[s] = {}
               /\ DOMAIN w2.dataChannels[s] = {}
               /\ DOMAIN w2.pendingMessages[s] = {}
               /\ DOMAIN w2.inboundFiles[s] = {}
               /\ \A x \in 1..Len(pcs) : pcs[x].owner = s => w2.pcs[x].closed

\* C18 witness: disconnectAll has run on a side that now has nothing registered,
\* while other sides hold an inbound transfer and a queue of pending messages
C18_Witness ==
    /\ nDisc > 0
    /\ \E s \in Peers :
           /\ DOMAIN peerConnections[s] = {}
           /\ \E x \in 1..Len(pcs) : pcs[x].owner = s /\ pcs[x].closed
    /\ \E s \in Peers : DOMAIN inboundFiles[s] # {}
    /\ \E s \in Peers : DOMAIN pendingMessages[s] # {}

\* The frames of whole transfers of the given files, one after the other
RECURSIVE Transfers(_, _)
Transfers(files, senderMeta) ==
    IF files = <<>> THEN <<>>
    ELSE sendFile(Head(files), senderMeta) \o Transfers(Tail(files), senderMeta)

IsFileMeta(frame) ==
    frame.kind = "string" /\ frame.valid /\ frame.json.type = "file-meta"

\* C20: a side holds one inbound transfer per remote peer at most, and a file-meta
\* received from a peer whose transfer is open puts a transfer with the new metadata
\* and no chunks in its place: the chunks collected so far are gone, nothing is
\* emitted to the application, and no other peer's transfer is touched.
C20_Step ==
    /\ \A s \in Peers : DOMAIN inboundFiles[s] \subseteq Peers \ {s}
    /\ \A id \in 1..Len(pcs) :
           (/\ Incoming(pcs, id)
            /\ IsFileMeta(NextFrame(pcs, id))
            /\ Has(inboundFiles[pcs[id].owner], pcs[id].peer)
            /\ pcs'[id].rcvd = pcs[id].rcvd + 1) =>
               LET s == pcs[id].owner
                   p == pcs[id].peer
               IN /\ inboundFiles' =
                         [inboundFiles EXCEPT ![s][p] =
                             [meta |-> NextFrame(pcs, id).json, chunks |-> <<>>]]
                  /\ pcs' = [pcs EXCEPT ![id].rcvd = @ + 1]
                  /\ UNCHANGED <<delivered, peerConnections, dataChannels,
                                 pendingMessages, tasks, net, roster>>

C20_MetaReplacesOpenTransfer == [][C20_Step]_vars

\* C20 witness: file-meta, a chunk and a second file-meta were received in this
\* order; the slot holds the second transfer without the chunk
C20_Witness ==
    \E id \in 1..Len(pcs) :
        /\ Paired(pcs, id)
        /\ pcs[id].rcvd = 3
        /\ LET out == pcs[pcs[id].remote].out
           IN /\ IsFileMeta(out[1])
              /\ out[2].kind = "binary"
              /\ IsFileMeta(out[3])
        /\ Has(inboundFiles[pcs[id].owner], pcs[id].peer)
        /\ inboundFiles[pcs[id].owner][pcs[id].peer].chunks = <<>>

\* A frame of no recognised kind: a string that JSON.parse rejects, JSON whose type
\* is none of file-meta, file-end and text, or data that is neither string nor
\* ArrayBuffer
Unrecognised(frame) ==
    IF frame.kind = "string"
    THEN ~frame.valid \/ frame.json.type \notin {"file-meta", "file-end", "text"}
    ELSE frame.kind # "binary"

\* C21: receiving a frame of no recognised kind only consumes the frame: nothing is
\* delivered to the application, no error is raised, and records, channels, queues
\* of pending messages and inbound transfers stay as they were.
C21_Step ==
    \A id \in 1..Len(pcs) :
        (/\ Incoming(pcs, id)
         /\ Unrecognised(NextFrame(pcs, id))
         /\ pcs'[id].rcvd = pcs[id].rcvd + 1) =>
            /\ pcs' = [pcs EXCEPT ![id].rcvd = @ + 1]
            /\ UNCHANGED <<delivered, raised, peerConnections, dataChannels,
                           inboundFiles, pendingMessages, tasks, net, roster>>

C21_UnknownFrameDropped == [][C21_Step]_vars

\* C21 witness: with a transfer open, data that is neither string nor binary and
\* a string that is not JSON were received, and the transfer is still open
C21_Witness ==
    \E id \in 1..Len(pcs) :
        /\ Paired(pcs, id)
        /\ pcs[id].rcvd = 3
        /\ LET out == pcs[pcs[id].remote].out
           IN /\ IsFileMeta(out[1])
              /\ out[2].kind = "blob"
              /\ out[3].kind = "string" /\ ~out[3].valid
        /\ Has(inboundFiles[pcs[id].owner], pcs[id].peer)

\* C22: when applying the answer of a peer is rejected (the registered record has
\* no offer of its own outstanding), the record of that peer is torn down, so that
\* none is registered afterwards, and the records, channels, queues and roster
\* entries of the other peers are unchanged.
C22_Step ==
    \A s \in Peers, from \in Peers :
        (/\ net[from][s] # <<>>
         /\ Head(net[from][s]).type = "answer"
         /\ net'[from][s] = Tail(net[from][s])
         /\ Has(peerConnections[s], from)
         /\ ~Negotiating(s, from)) =>
            /\ "handleAnswer" \in raised'
            /\ ~Has(peerConnections'[s], from)
            /\ ~Has(dataChannels'[s], from)
            /\ \A p \in Peers \ {from} :
                   /\ Has(peerConnections'[s], p) = Has(peerConnections[s], p)
                   /\ Has(dataChannels'[s], p) = Has(dataChannels[s], p)
            /\ roster' = roster

C22_RejectionTearsDown == [][C22_Step]_vars

\* C23: in a session that is still mounted with its socket open, when the
\* initiateCall awaited by the loop of the 'joined' case settles, fulfilled or
\* rejected, and listed peers remain, the next listed peer gets its metadata
\* recorded and initiateCall is started for it with a new initiator record.
C23_Step ==
    \A t \in tasks, k \in 1..Len(socks) :
        (/\ t.op = "initiateCall"
         /\ t \notin tasks'
         /\ socks[k].loopPc = t.pc
         /\ socks[k].loop # <<>>
         /\ socks[k].live
         /\ socks[k].readyState = "open") =>
            LET s == socks[k].owner
                p == Head(socks[k].loop)
            IN /\ p \in peerMeta'[s]
               /\ Len(pcs') = Len(pcs) + 1
               /\ Has(peerConnections'[s], p)
               /\ peerConnections'[s][p] = Len(pcs')
               /\ pcs'[Len(pcs')].role = "initiator"

C23_EveryListedPeerCalled == [][C23_Step]_vars

\* C24: when a side handles the relay's peer-left for peer P, P is no longer in
\* its roster afterwards and it has no record, channel, queue of pending messages
\* or inbound transfer for P.
C24_Step ==
    \A k \in 1..Len(socks) :
        (/\ socks[k].readyState = "open"
         /\ socks[k].inbox # <<>>
         /\ Head(socks[k].inbox).type = "peer-left"
         /\ socks'[k].inbox = Tail(socks[k].inbox)) =>
            LET s == socks[k].owner
                p == Head(socks[k].inbox).peers[1]
            IN /\ \A i \in 1..Len(roster'[s]) : roster'[s][i] # p
               /\ ~Has(peerConnections'[s], p)
               /\ ~Has(dataChannels'[s], p)
               /\ ~Has(pendingMessages'[s], p)
               /\ ~Has(inboundFiles'[s], p)

C24_PeerLeftTearsDown == [][C24_Step]_vars

\* C26: handling the relay's peer-joined for a new peer records the display
\* metadata of that peer and does nothing else: no record is created, no offer is
\* sent, no call is left suspended, and the roster, the records, the channels, the
\* queues and the connection status stay as they were.
C26_Step ==
    \A k \in 1..Len(socks) :
        (/\ socks[k].readyState = "open"
         /\ socks[k].inbox # <<>>
         /\ Head(socks[k].inbox).type = "peer-joined"
         /\ socks'[k].inbox = Tail(socks[k].inbox)) =>
            LET s == socks[k].owner
                p == Head(socks[k].inbox).peers[1]
            IN /\ peerMeta' = [peerMeta EXCEPT ![s] = @ \cup {p}]
               /\ UNCHANGED <<pcs, peerConnections, dataChannels, inboundFiles,
                              pendingMessages, tasks, net, roster, delivered,
                              status, errorText, raised>>

C25_Step ==
    \A id \in 1..Len(pcs) :
        (/\ ~pcs[id].closed
         /\ Has(peerConnections[pcs[id].owner], pcs[id].peer)
         /\ peerConnections[pcs[id].owner][pcs[id].peer] = id
         /\ nFail' = nFail + 1
         /\ pcs'[id] # pcs[id]) =>
            LET s == pcs[id].owner
                p == pcs[id].peer
            IN /\ ~Has(peerConnections'[s], p)
               /\ ~Has(dataChannels'[s], p)
               /\ ~Has(pendingMessages'[s], p)
               /\ \A i \in 1..Len(roster'[s]) : roster'[s][i] # p
               /\ UNCHANGED <<socks, wsRef, status, errorText>>
               /\ \A q \in Peers \ {p} :
                      /\ Has(peerConnections'[s], q) = Has(peerConnections[s], q)
                      /\ Has(dataChannels'[s], q) = Has(dataChannels[s], q)
                      /\ Has(pendingMessages'[s], q) = Has(pendingMessages[s], q)

C25_LossRemovesRecord == [][C25_Step]_vars

\* C27: the total that admission control reads counts only the peers of rooms that
\* are connected: for a side whose RoomConnection has been unmounted, because the
\* user disconnected from the room or left it, the roster of the room adds nothing
\* to the total.
C27_TotalCountsConnectedRooms ==
    \A s \in Peers :
        (wsRef[s] # 0 /\ ~socks[wsRef[s]].live) =>
            totalPeers([r \in RoomNames |->
                           IF r = "lobby" THEN Len(roster[s]) ELSE 0]) = 0

\* C28: a message decoded on a channel of room R is appended once to the history
\* of R and passed once to addMessage for R, whichever room is shown, and the
\* history of every other room and what was persisted for it stay as they were.
C28_Step ==
    (lastOp' = Op("handleIncomingMessage", lastOp'.roomName)
     /\ persisted' # persisted) =>
        LET room == lastOp'.roomName
            msg == SumOver([r \in RoomNames |-> Len(persisted[r])], RoomNames) + 1
        IN /\ messagesByRoom' = [messagesByRoom EXCEPT ![room] = Append(@, msg)]
           /\ persisted' = [persisted EXCEPT ![room] = Append(@, msg)]
           /\ activeRoom' = activeRoom

C28_MessageFiledUnderItsRoom == [][C28_Step]_vars

\* C28 witness: a message arrived in a room that was not the room shown
C28_Witness ==
    \E room \in RoomNames :
        /\ room # activeRoom
        /\ activeRoom # NoRoom
        /\ Len(messagesByRoom[room]) = 1
        /\ messagesByRoom[activeRoom] = <<>>
        /\ lastOp = Op("handleIncomingMessage", room)

\* What the RoomConnection of side q holds, with the entries of the App state
\* filed under its room
Held(q) ==
    [peerConnections |-> peerConnections[q], dataChannels |-> dataChannels[q],
     pendingMessages |-> pendingMessages[q], inboundFiles |-> inboundFiles[q],
     roster |-> roster[q], status |-> status[q], errorText |-> errorText[q],
     peerMeta |-> peerMeta[q],
     records |-> [x \in {y \in 1..Len(pcs) : pcs[y].owner = q} |-> pcs[x]]]

\* C29: every step is handled by one RoomConnection at most, and it leaves what
\* every other RoomConnection holds as it was: its records, channels, queues of
\* pending messages, inbound transfers, roster and connection status.
C29_Step ==
    \E s \in Peers : \A q \in Peers \ {s} : Held(q)' = Held(q)

NegotiationRank(pc) ==
    IF pc.closed \/ pc.dc = "closed" THEN 4
    ELSE IF pc.dc = "open" THEN 3
    ELSE IF pc.localSet /\ pc.remote # 0 THEN 2
    ELSE IF pc.localSet \/ pc.remote # 0 \/ pc.signalingState # "stable" THEN 1
    ELSE 0

\* C30: no record ever moves back along NEW, NEGOTIATING, CONNECTING, OPEN,
\* FAILED/CLOSED, a record that is closed stays closed, an open one only closes, and a
\* record that appears is a new one in state NEW that keeps owner and peer for life.
C30_Step ==
    /\ Len(pcs') >= Len(pcs)
    /\ \A x \in 1..Len(pcs) :
           /\ NegotiationRank(pcs'[x]) >= NegotiationRank(pcs[x])
           /\ pcs[x].closed => pcs'[x].closed
           /\ pcs'[x].owner = pcs[x].owner
           /\ pcs'[x].peer = pcs[x].peer
    /\ \A x \in (Len(pcs) + 1)..Len(pcs') :
           /\ ~pcs'[x].localSet
           /\ pcs'[x].remote = 0
           /\ pcs'[x].signalingState = "stable"
           /\ pcs'[x].connectionState = "new"
           /\ ~pcs'[x].closed

C30_StateOnlyAdvances == [][C30_Step]_vars

\* C30 witness: after a record for a peer was closed, a later record of the same
\* side for the same peer has reached OPEN
C30_Witness ==
    \E x \in 1..Len(pcs), y \in 1..Len(pcs) :
        /\ x < y
        /\ pcs[x].owner = pcs[y].owner
        /\ pcs[x].peer = pcs[y].peer
        /\ pcs[x].closed
        /\ NegotiationRank(pcs[y]) = 3

\* C31: once every addMessage call for a room has completed, each message passed to
\* addMessage for that room is in the stored list of the room.
C31_NoAppendLost ==
    \A r \in RoomNames :
        (\A t \in dbTasks : ~(t.op = "addMessage" /\ t.roomName = r))
            => \A i \in 1..Len(persisted[r]) :
                   \E j \in 1..Len(store[r]) : store[r][j] = persisted[r][i]

\* C34: the in-memory list of a room never holds a message twice and never leaves
\* out a stored message that lies between two stored messages it holds.
C34_PagesNeitherRepeatNorSkip ==
    \A r \in RoomNames :
        LET m == messagesByRoom[r]
            st == store[r]
            held(j) == \E i \in 1..Len(m) : m[i] = st[j] IN
        /\ \A i, j \in 1..Len(m) : i # j => m[i] # m[j]
        /\ \A j1, j2, j3 \in 1..Len(st) :
               (j1 < j2 /\ j2 < j3 /\ held(j1) /\ held(j3)) => held(j2)

\* The record id is the one its owner holds for its peer
Current(id) ==
    IF Has(peerConnections[pcs[id].owner], pcs[id].peer)
    THEN peerConnections[pcs[id].owner][pcs[id].peer] = id
    ELSE FALSE

\* What a side holds for one peer
HeldFor(s, p) ==
    [pc |-> IF Has(peerConnections[s], p) THEN peerConnections[s][p] ELSE 0,
     dc |-> IF Has(dataChannels[s], p) THEN dataChannels[s][p] ELSE 0,
     queue |-> IF Has(pendingMessages[s], p) THEN pendingMessages[s][p] ELSE <<>>,
     slot |-> IF Has(inboundFiles[s], p) THEN <<inboundFiles[s][p]>> ELSE <<>>,
     listed |-> \E i \in 1..Len(roster[s]) : roster[s][i] = p]

\* C32: a record that was superseded or torn down is closed, so that no
\* connectivity callback can come from it; and a step in which the connectivity
\* state of such a record changes leaves the current record, channel, queue and
\* transfer slot of that peer, and its place in the roster, as they were.
C32_Step ==
    \A id \in 1..Len(pcs) :
        ~Current(id) =>
            /\ pcs[id].closed
            /\ (nFail' = nFail + 1
                /\ pcs'[id].connectionState # pcs[id].connectionState)
                   => HeldFor(pcs[id].owner, pcs[id].peer)'
                          = HeldFor(pcs[id].owner, pcs[id].peer)

C32_StaleCallbackHarmless == [][C32_Step]_vars

\* C32 witness: the transport of a superseded record went down (the record its
\* peer held for it was torn down by a connectivity callback) while its owner
\* holds a live current record for that peer
C32_Witness ==
    \E x \in 1..Len(pcs), y \in 1..Len(pcs), z \in 1..Len(pcs) :
        /\ x < y
        /\ pcs[x].owner = pcs[y].owner /\ pcs[x].peer = pcs[y].peer
        /\ pcs[x].closed
        /\ Current(y) /\ ~pcs[y].closed
        /\ pcs[z].owner = pcs[x].peer /\ pcs[z].remote = x
        /\ pcs[x].remote = z
        /\ pcs[z].closed
        /\ nFail > 0 /\ nDisc = 0
        /\ ~Has(peerConnections[pcs[z].owner], pcs[x].owner)

\* C33: a broadcastText call sends the frame at once to each peer whose channel is
\* open and leaves that peer's queue alone, appends it to the queue of each peer
\* whose channel is connecting and sends nothing to it, and for every other peer
\* (no channel yet, or a channel that is closing or closed) changes nothing.
C33_Step ==
    nText' = nText + 1 =>
        \E s \in Peers : \A p \in Peers :
            LET msg == StringData(TextObj(s, nText + 1))
                ch == dataChannels[s][p]
                queue == IF Has(pendingMessages[s], p) THEN pendingMessages[s][p] ELSE <<>>
            IN IF ~Has(dataChannels[s], p)
               THEN /\ HeldFor(s, p)' = HeldFor(s, p)
                    /\ Has(peerConnections[s], p) =>
                           pcs'[peerConnections[s][p]] = pcs[peerConnections[s][p]]
               ELSE IF pcs[ch].dc = "open"
               THEN /\ pcs'[ch].out = Append(pcs[ch].out, msg)
                    /\ HeldFor(s, p)' = HeldFor(s, p)
               ELSE IF pcs[ch].dc = "connecting"
               THEN /\ pcs'[ch].out = pcs[ch].out
                    /\ Has(pendingMessages'[s], p)
                    /\ pendingMessages'[s][p]
                           = Append(queue, [type |-> "text", payload |-> msg])
               ELSE /\ HeldFor(s, p)' = HeldFor(s, p)
                    /\ pcs'[ch] = pcs[ch]

IsFileEnd(frame) ==
    frame.kind = "string" /\ frame.valid /\ frame.json.type = "file-end"

\* C35: a file-end received from a peer without an open transfer changes nothing and
\* emits nothing; one received with an open transfer emits exactly one artifact, built
\* from that transfer, and clears it; and the artifacts emitted for a peer are never
\* more than the file-meta frames received from it.
C35_Step ==
    \A id \in 1..Len(pcs) :
        /\ Paired(pcs, id) =>
               Len(ArtifactsFrom(pcs[id].owner, pcs[id].peer))
                   <= Len(SelectSeq(SubSeq(pcs[pcs[id].remote].out, 1, pcs[id].rcvd),
                                    IsFileMeta))
        /\ (/\ Incoming(pcs, id)
            /\ IsFileEnd(NextFrame(pcs, id))
            /\ pcs'[id].rcvd = pcs[id].rcvd + 1) =>
               LET s == pcs[id].owner
                   p == pcs[id].peer
               IN /\ pcs' = [pcs EXCEPT ![id].rcvd = @ + 1]
                  /\ UNCHANGED <<peerConnections, dataChannels, pendingMessages,
                                 tasks, net, roster>>
                  /\ IF Has(inboundFiles[s], p)
                     THEN /\ inboundFiles' = [inboundFiles EXCEPT ![s] = MapDelete(@, p)]
                          /\ delivered' =
                                 [delivered EXCEPT ![s] =
                                     Append(@, [from |-> p,
                                                msg |-> Artifact(inboundFiles[s][p], p)])]
                     ELSE UNCHANGED <<inboundFiles, delivered>>

C35_FileEndEmitsAtMostOnce == [][C35_Step]_vars

\* C35 witness: a peer sent file-end, file-meta, file-end; the first file-end found
\* no transfer and the second closed the one the file-meta opened, so that one
\* artifact was emitted
C35_Witness ==
    \E id \in 1..Len(pcs) :
        /\ Paired(pcs, id)
        /\ pcs[id].rcvd = 3
        /\ IsFileEnd(pcs[pcs[id].remote].out[1])
        /\ IsFileMeta(pcs[pcs[id].remote].out[2])
        /\ IsFileEnd(pcs[pcs[id].remote].out[3])
        /\ Len(ArtifactsFrom(pcs[id].owner, pcs[id].peer)) = 1
        /\ ~Has(inboundFiles[pcs[id].owner], pcs[id].peer)

IsBinary(frame) == frame.kind = "binary"

\* The index of the last file-meta among frames, 0 if there is none
RECURSIVE LastMeta(_)
LastMeta(frames) ==
    IF frames = <<>> THEN 0
    ELSE IF IsFileMeta(frames[Len(frames)]) THEN Len(frames)
    ELSE LastMeta(SubSeq(frames, 1, Len(frames) - 1))

\* C36: an inbound transfer belongs to the current record of its peer: its metadata
\* and chunks are those received on that record since its last file-meta, a step
\* that tears the record down or replaces it leaves no transfer for the peer, and
\* an artifact is built from the transfer of the record that received the file-end.
C36_Step ==
    \A s \in Peers, p \in Peers :
        /\ Has(inboundFiles[s], p) =>
               /\ Has(peerConnections[s], p)
               /\ LET id == peerConnections[s][p]
                      got == IF Paired(pcs, id)
                             THEN SubSeq(pcs[pcs[id].remote].out, 1, pcs[id].rcvd)
                             ELSE <<>>
                      m == LastMeta(got)
                  IN /\ m > 0
                     /\ inboundFiles[s][p].meta = got[m].json
                     /\ inboundFiles[s][p].chunks
                            = SelectSeq(SubSeq(got, m + 1, Len(got)), IsBinary)
        /\ HeldFor(s, p)'.pc # HeldFor(s, p).pc => ~Has(inboundFiles'[s], p)
        /\ Len(ArtifactsFrom(s, p)') > Len(ArtifactsFrom(s, p)) =>
               /\ Has(inboundFiles[s], p)
               /\ HeldFor(s, p)'.pc = HeldFor(s, p).pc
               /\ ArtifactsFrom(s, p)'
                      = Append(ArtifactsFrom(s, p), Artifact(inboundFiles[s][p], p))

C36_TransferDiesWithRecord == [][C36_Step]_vars

\* C36 witness: a record that had received the file-meta and a chunk of a file was
\* replaced, and the record that replaced it has received a whole file and emitted
\* the only artifact, which holds the chunks of that file alone
C36_Witness ==
    \E x \in 1..Len(pcs), y \in 1..Len(pcs) :
        /\ x < y
        /\ pcs[x].owner = pcs[y].owner /\ pcs[x].peer = pcs[y].peer
        /\ pcs[x].closed /\ Current(y)
        /\ Paired(pcs, x)
        /\ pcs[x].rcvd = 2
        /\ IsFileMeta(pcs[pcs[x].remote].out[1])
        /\ IsBinary(pcs[pcs[x].remote].out[2])
        /\ Paired(pcs, y)
        /\ pcs[y].rcvd = Len(pcs[pcs[y].remote].out)
        /\ Len(ArtifactsFrom(pcs[y].owner, pcs[y].peer)) = 1
        /\ Len(ArtifactsFrom(pcs[y].owner, pcs[y].peer)[1].blob.parts) = 2

\* C37: on every side, each peer that has a data channel, a queue of pending messages
\* or an inbound transfer has a connection record; and a disconnectAll call leaves
\* the four maps of its side empty and the other sides as they were.
C37_Step ==
    /\ \A s \in Peers :
           (DOMAIN dataChannels[s] \cup DOMAIN pendingMessages[s]
                \cup DOMAIN inboundFiles[s]) \subseteq DOMAIN peerConnections[s]
    /\ nDisc' = nDisc + 1 =>
           \E s \in Peers :
               /\ DOMAIN peerConnections'[s] = {}
               /\ DOMAIN dataChannels'[s] = {}
               /\ DOMAIN pendingMessages'[s] = {}
               /\ DOMAIN inboundFiles'[s] = {}
               /\ \A q \in Peers \ {s} : Held(q)' = Held(q)

C37_MapsFollowRecords == [][C37_Step]_vars

\* C37 witness: disconnectAll ran on a side whose record had an inbound transfer
\* under way, and the side holds no record, channel, queue or transfer
C37_Witness ==
    \E x \in 1..Len(pcs) :
        LET s == pcs[x].owner IN
        /\ nDisc > 0 /\ nFail = 0
        /\ pcs[x].closed
        /\ Paired(pcs, x)
        /\ pcs[x].rcvd = 2
        /\ IsFileMeta(pcs[pcs[x].remote].out[1])
        /\ IsBinary(pcs[pcs[x].remote].out[2])
        /\ DOMAIN peerConnections[s] = {}
        /\ DOMAIN dataChannels[s] = {}
        /\ DOMAIN pendingMessages[s] = {}
        /\ DOMAIN inboundFiles[s] = {}

\* C38: the roster of a room never lists a peer twice.
C38_RosterHasNoDuplicate ==
    \A s \in Peers :
        \A i, j \in 1..Len(roster[s]) : i # j => roster[s][i] # roster[s][j]

\* C38 witness: a side negotiated twice with the same peer, no record was lost to a
\* transport failure or a disconnect in between, and the roster lists the peer
C38_Witness ==
    \E x \in 1..Len(pcs), y \in 1..Len(pcs) :
        /\ x < y
        /\ pcs[x].owner = pcs[y].owner /\ pcs[x].peer = pcs[y].peer
        /\ pcs[x].localSet /\ pcs[y].localSet
        /\ nFail = 0 /\ nDisc = 0
        /\ \E i \in 1..Len(roster[pcs[x].owner]) :
               roster[pcs[x].owner][i] = pcs[x].peer

\* C39: every text or file message handed to the application carries as senderId
\* the id of the peer whose channel it was received on.
C39_SenderIsChannelPeer ==
    \A s \in Peers :
        \A i \in 1..Len(delivered[s]) :
            delivered[s][i].msg.senderId = delivered[s][i].from

\* C10: handling a binary chunk from a peer that has no inbound transfer slot
\* changes nothing but the count of frames received on that channel: no record,
\* channel, queue, slot or roster changes and no message is emitted.
C10_Step ==
    \A id \in 1..Len(pcs) :
        (/\ Incoming(pcs, id)
         /\ NextFrame(pcs, id).kind = "binary"
         /\ ~Has(inboundFiles[pcs[id].owner], pcs[id].peer)
         /\ pcs'[id].rcvd = pcs[id].rcvd + 1) =>
            /\ pcs' = [pcs EXCEPT ![id].rcvd = @ + 1]
            /\ UNCHANGED <<peerConnections, dataChannels, inboundFiles, pendingMessages,
                           tasks, net, roster, delivered>>

C10_DanglingChunkDropped == [][C10_Step]_vars

\* C10 witness: the first frame received from a peer was a binary chunk, while a
\* transfer from another peer was in progress
C10_Witness ==
    \E id \in 1..Len(pcs) :
        /\ pcs[id].rcvd >= 1
        /\ Paired(pcs, id)
        /\ pcs[pcs[id].remote].out[1].kind = "binary"
        /\ \E p \in Peers : p # pcs[id].peer /\ Has(inboundFiles[pcs[id].owner], p)

====
